---- MODULE Spec2Model ----
(***************************************************************************)
(* A model of SpaceNotes: the sync daemon (src/src), and the reducers of   *)
(* the SpacetimeDB module (src/spacetime-module/src).                      *)
(*                                                                         *)
(* Text is modelled as a sequence of tokens.  In file text and note        *)
(* content the tokens are                                                  *)
(*   "F"        the three characters ---                                   *)
(*   "N"        a newline (the whitespace of the model)                    *)
(*   "x", "y"   ordinary text                                              *)
(*   "k1".."k5" the text  spacetime_id: <id>  for the ids "u1".."u5"       *)
(*   "t"        the text  title: T       (another YAML key)                *)
(*   "j"        the text  old_spacetime_id: 0  (a key that contains the    *)
(*              substring spacetime_id: but is not the key spacetime_id)   *)
(*   "q"        text no YAML parser accepts (a tab, an open bracket)       *)
(*   "n"        the text  null                                             *)
(* A path is a sequence of tokens too: "/" , "." , "md" and names.         *)
(***************************************************************************)
EXTENDS Naturals, Integers, Sequences, FiniteSets, TLC

(***************************************************************************)
(* Sequence helpers (Rust's str methods on token sequences).               *)
(***************************************************************************)
IsWs(t) == t \in {"N", "S"}

RECURSIVE trim_start(_)
trim_start(s) ==
    IF s # <<>> /\ IsWs(Head(s)) THEN trim_start(Tail(s)) ELSE s

RECURSIVE trim_end(_)
trim_end(s) ==
    IF s # <<>> /\ IsWs(s[Len(s)]) THEN trim_end(SubSeq(s, 1, Len(s) - 1)) ELSE s

trim(s) == trim_end(trim_start(s))

starts_with(s, p) ==
    Len(p) <= Len(s) /\ SubSeq(s, 1, Len(p)) = p

ends_with(s, p) ==
    Len(p) <= Len(s) /\ SubSeq(s, Len(s) - Len(p) + 1, Len(s)) = p

\* str::find: the index (from 1) of the first occurrence of p in s, 0 if none.
find(s, p) ==
    LET hits == {i \in 1..(Len(s) - Len(p) + 1) : SubSeq(s, i, i + Len(p) - 1) = p}
    IN  IF hits = {} THEN 0 ELSE CHOOSE i \in hits : \A k \in hits : i <= k

contains(s, p) == find(s, p) # 0

\* str::rfind for a single token.
rfind(s, t) ==
    LET hits == {i \in 1..Len(s) : s[i] = t}
    IN  IF hits = {} THEN 0 ELSE CHOOSE i \in hits : \A k \in hits : i >= k

\* str::matches(t).count()
count(s, t) == Cardinality({i \in 1..Len(s) : s[i] = t})

\* str::replacen(from, to, 1); the empty pattern matches at the start.
replacen1(s, from, to) ==
    LET i == find(s, from)
    IN  IF i = 0 THEN s
        ELSE SubSeq(s, 1, i - 1) \o to \o SubSeq(s, i + Len(from), Len(s))

\* str::replace(from, to): the matches are found left to right and do not
\* overlap; the empty pattern matches before every token and at the end.
RECURSIVE replace(_, _, _)
replace(s, from, to) ==
    IF from = <<>>
    THEN IF s = <<>> THEN to
         ELSE to \o <<Head(s)>> \o replace(Tail(s), from, to)
    ELSE LET i == find(s, from)
         IN  IF i = 0 THEN s
             ELSE SubSeq(s, 1, i - 1) \o to \o
                  replace(SubSeq(s, i + Len(from), Len(s)), from, to)

RECURSIVE trim_end_matches(_, _)
trim_end_matches(s, p) ==
    IF p # <<>> /\ ends_with(s, p)
    THEN trim_end_matches(SubSeq(s, 1, Len(s) - Len(p)), p)
    ELSE s

RECURSIVE Concat(_)
Concat(ss) == IF ss = <<>> THEN <<>> ELSE Head(ss) \o Concat(Tail(ss))

(***************************************************************************)
(* YAML and JSON as the codec uses them (serde_yaml, serde_json).          *)
(* A parsed document is [kind, keys, text]: kind "map" with the set of its *)
(* key tokens, "null", "str" with the scalar's text, or "err".             *)
(***************************************************************************)
IdSeq == <<"u1", "u2", "u3", "u4", "u5">>

IdKeySeq == <<"k1", "k2", "k3", "k4", "k5">>

Ids == {IdSeq[i] : i \in DOMAIN IdSeq}

IdKeyToks == {IdKeySeq[i] : i \in DOMAIN IdKeySeq}

KeyToks == IdKeyToks \cup {"t", "j"}

KeyOf(id) == IdKeySeq[CHOOSE i \in DOMAIN IdSeq : IdSeq[i] = id]

IdOf(k) == IdSeq[CHOOSE i \in DOMAIN IdKeySeq : IdKeySeq[i] = k]

\* Keys are emitted in the order of their names (BTreeMap, serde_json's Map):
\* old_spacetime_id < spacetime_id < title.
KeyOrder == <<"j">> \o IdKeySeq \o <<"t">>

Doc(kind, keys, text) == [kind |-> kind, keys |-> keys, text |-> text]

\* The JSON text {} and the empty string (the facade's String::new()).
EmptyObject == Doc("map", {}, <<>>)

NoFrontmatter == Doc("empty", {}, <<>>)

\* serde_yaml::from_str on the text y.
yaml_from_str(y) ==
    LET s    == trim(y)
        idx  == {i \in 1..Len(s) : ~IsWs(s[i])}
        keyI == {i \in idx : s[i] \in KeyToks}
        \* a key line holds its key alone
        alone(i) == (i = 1 \/ s[i - 1] = "N") /\ (i = Len(s) \/ s[i + 1] = "N")
        dup  == \E i, k \in keyI :
                   /\ i # k
                   /\ \/ s[i] = s[k]
                      \/ s[i] \in IdKeyToks /\ s[k] \in IdKeyToks
    IN  IF \E i \in idx : s[i] = "q" THEN Doc("err", {}, <<>>)
        ELSE IF idx = {} \/ s = <<"n">> THEN Doc("null", {}, <<>>)
        ELSE IF keyI = {} THEN Doc("str", {}, s)
        ELSE IF keyI # idx \/ dup \/ \E i \in keyI : ~alone(i)
             THEN Doc("err", {}, <<>>)
        ELSE Doc("map", {s[i] : i \in keyI}, <<>>)

\* serde_yaml::to_string of a document, without the final newline.
RECURSIVE EmitKeys(_, _)
EmitKeys(keys, order) ==
    IF order = <<>> THEN <<>>
    ELSE IF Head(order) \in keys
         THEN <<Head(order)>> \o
              (IF \E i \in 1..Len(Tail(order)) : Tail(order)[i] \in keys
               THEN <<"N">> ELSE <<>>) \o
              EmitKeys(keys, Tail(order))
         ELSE EmitKeys(keys, Tail(order))

yaml_to_string(d) ==
    CASE d.kind = "map" -> EmitKeys(d.keys, KeyOrder)
      [] d.kind = "str" -> d.text
      [] OTHER          -> <<"n">>

\* json.get("spacetime_id").and_then(as_str): the id, or "" for None.
get_spacetime_id(d) ==
    IF d.kind = "map" /\ d.keys \cap IdKeyToks # {}
    THEN IdOf(CHOOSE k \in d.keys \cap IdKeyToks : TRUE)
    ELSE ""

(***************************************************************************)
(* src/src/frontmatter.rs                                                  *)
(***************************************************************************)
\* The index in rest of the closing "\n---", 0 if there is none.
find_closing(rest) == find(rest, <<"N", "F">>)

\* parse_frontmatter(content) = <<body, frontmatter>>
parse_frontmatter(content) ==
    IF ~starts_with(content, <<"F">>) THEN <<content, EmptyObject>>
    ELSE LET rest == Tail(content)
             end  == find_closing(rest)
         IN  IF end = 0 THEN <<content, EmptyObject>>
             ELSE LET yaml == yaml_from_str(SubSeq(rest, 1, end - 1))
                      body == trim_start(SubSeq(rest, end + 2, Len(rest)))
                  IN  <<body, IF yaml.kind = "err" THEN EmptyObject ELSE yaml>>

\* SPACETIME_ID_REGEX, (?m)^spacetime_id:\s*([a-f0-9\-]+): the id of the first
\* spacetime_id key that starts a line, "" if there is none.
regex_captures(head) ==
    LET hits == {i \in 1..Len(head) :
                    head[i] \in IdKeyToks /\ (i = 1 \/ head[i - 1] = "N")}
    IN  IF hits = {} THEN ""
        ELSE IdOf(head[CHOOSE i \in hits : \A k \in hits : i <= k])

\* extract_spacetime_id(content): the id, or "" for None
\* (read_note_at takes unwrap_or_default).
extract_spacetime_id(content) ==
    LET strict ==
            IF starts_with(content, <<"F">>) /\ find_closing(Tail(content)) # 0
            THEN get_spacetime_id(
                     yaml_from_str(SubSeq(Tail(content), 1,
                                          find_closing(Tail(content)) - 1)))
            ELSE ""
    IN  IF strict # "" THEN strict ELSE regex_captures(content)

\* The fresh block inject_spacetime_id prepends.
FreshBlock(id) == <<"F", "N", KeyOf(id), "N", "F", "N", "N">>

\* inject_spacetime_id that keeps the id key the block already holds.
inject_keeping_id(content, id) ==
    IF ~starts_with(content, <<"F">>) THEN FreshBlock(id) \o content
    ELSE LET rest == Tail(content)
             end  == find_closing(rest)
         IN  IF end = 0 THEN FreshBlock(id) \o content
             ELSE LET yaml == yaml_from_str(SubSeq(rest, 1, end - 1))
                      body == SubSeq(rest, end + 2, Len(rest))
                      old  == IF yaml.kind = "map" THEN yaml.keys ELSE {}
                      keys == old \cup {KeyOf(id)}
                  IN  <<"F", "N">> \o EmitKeys(keys, KeyOrder)
                          \o <<"N", "N", "F">> \o body

inject_spacetime_id(content, id) ==
    IF ~starts_with(content, <<"F">>) THEN FreshBlock(id) \o content
    ELSE LET rest == Tail(content)
             end  == find_closing(rest)
         IN  IF end = 0 THEN FreshBlock(id) \o content
             ELSE LET yaml == yaml_from_str(SubSeq(rest, 1, end - 1))
                      body == SubSeq(rest, end + 2, Len(rest))
                      old  == IF yaml.kind = "map" THEN yaml.keys ELSE {}
                      keys == (old \ IdKeyToks) \cup {KeyOf(id)}
                  IN  <<"F", "N">> \o EmitKeys(keys, KeyOrder)
                          \o <<"N", "N", "F">> \o body

(***************************************************************************)
(* src/src/sanitize.rs.  Path tokens: the characters of names, "/", and    *)
(* ".md" (the three characters of the extension).  "ELLIPSIS", "LDQUO",    *)
(* "RDQUO", "LSQUO", "RSQUO", "EMDASH", "ENDASH" are the typographic       *)
(* characters; any token outside AllowedChars is another character.        *)
(***************************************************************************)
AllowedChars ==
    {"a", "b", "c", "x", "F", "G", "2", ".md", "/", ".", " ", "-", "_", ",",
     "(", ")", "[", "]", "DQUOTE", "QUOTE"}

\* sanitize_char that leaves the characters it does not know.
sanitize_char_lenient(c) ==
    CASE c = "ELLIPSIS"             -> <<".", ".", ".">>
      [] c \in {"LDQUO", "RDQUO"}   -> <<"DQUOTE">>
      [] c \in {"LSQUO", "RSQUO"}   -> <<"QUOTE">>
      [] c \in {"EMDASH", "ENDASH"} -> <<"-">>
      [] OTHER                      -> <<c>>

sanitize_char(c) ==
    CASE c = "ELLIPSIS"             -> <<".", ".", ".">>
      [] c \in {"LDQUO", "RDQUO"}   -> <<"DQUOTE">>
      [] c \in {"LSQUO", "RSQUO"}   -> <<"QUOTE">>
      [] c \in {"EMDASH", "ENDASH"} -> <<"-">>
      [] c \in AllowedChars         -> <<c>>
      [] OTHER                      -> <<"_">>

RECURSIVE sanitize_path(_)
sanitize_path(path) ==
    IF path = <<>> THEN <<>>
    ELSE sanitize_char(Head(path)) \o sanitize_path(Tail(path))

(***************************************************************************)
(* src/src/note.rs and src/src/folder.rs                                   *)
(***************************************************************************)
\* rsplit('/').next(): the part after the last "/".
last_segment(s) == SubSeq(s, rfind(s, "/") + 1, Len(s))

note_name(path) == last_segment(trim_end_matches(path, <<".md">>))

note_folder_path(path) ==
    IF rfind(path, "/") = 0 THEN <<>> ELSE SubSeq(path, 1, rfind(path, "/"))

path_depth(path) == count(path, "/")

\* Note::new
NewNote(id, path, content, frontmatter, size, created, modified) ==
    [id            |-> id,
     path          |-> path,
     name          |-> note_name(path),
     content       |-> content,
     folder_path   |-> note_folder_path(path),
     depth         |-> path_depth(path),
     frontmatter   |-> frontmatter,
     size          |-> size,
     created_time  |-> created,
     modified_time |-> modified]

\* Folder::new
NewFolder(path) ==
    [path  |-> path,
     name  |-> last_segment(trim_end_matches(path, <<"/">>)),
     depth |-> path_depth(path)]

(***************************************************************************)
(* src/src/tracker.rs.  The tracker is a function from ids to a hash or    *)
(* NoHash.  SHA-256 is taken to be injective: the hash of c is the pair    *)
(* <<"sha256", c>>.                                                        *)
(***************************************************************************)
NoHash == <<"none">>

hash(content) == <<"sha256", content>>

EmptyTracker == [i \in Ids |-> NoHash]

\* An update that stores nothing.
tracker_update_lost(map, id, content) == map

tracker_update(map, id, content) == [map EXCEPT ![id] = hash(content)]

\* A tracker whose echo check lets every read through.
has_changed_always(map, id, content) == TRUE

has_changed(map, id, content) ==
    IF map[id] # NoHash THEN map[id] # hash(content) ELSE TRUE

\* A tracker that reports every content as modified.
is_modified_always(map, id, content) ==
    [ret |-> TRUE, map |-> [map EXCEPT ![id] = hash(content)]]

\* is_modified returns ret and leaves the map as map.
is_modified(map, id, content) ==
    IF map[id] # NoHash /\ map[id] = hash(content)
    THEN [ret |-> FALSE, map |-> map]
    ELSE [ret |-> TRUE, map |-> [map EXCEPT ![id] = hash(content)]]

tracker_remove(map, id) == [map EXCEPT ![id] = NoHash]

(***************************************************************************)
(* src/src/writer.rs: the text write_note_to_disk renames onto the target. *)
(***************************************************************************)
\* Steps 1 and 2: the JSON value with spacetime_id forced in.
writer_json(note) ==
    LET v == IF note.frontmatter # NoFrontmatter /\ note.frontmatter # EmptyObject
             THEN note.frontmatter ELSE EmptyObject
    IN  IF v.kind = "map"
        THEN Doc("map", (v.keys \ IdKeyToks) \cup {KeyOf(note.id)}, <<>>)
        ELSE v

writer_text(note) ==
    <<"F", "N">> \o trim(yaml_to_string(writer_json(note)))
        \o <<"N", "F", "N", "N">> \o note.content

(***************************************************************************)
(* src/spacetime-module/src/lib.rs: the tables.  A database is             *)
(* [note, folder]: two sets of rows.  A transaction carries the tables,    *)
(* ok (FALSE once an insert has violated a constraint: Table::insert       *)
(* panics and the runtime rolls the transaction back), and the primary     *)
(* keys it deleted or inserted.                                            *)
(***************************************************************************)
DbNote(id, path, name, content, folder_path, depth, frontmatter, size, created, modified, ts) ==
    [id            |-> id,
     path          |-> path,
     name          |-> name,
     content       |-> content,
     folder_path   |-> folder_path,
     depth         |-> depth,
     frontmatter   |-> frontmatter,
     size          |-> size,
     created_time  |-> created,
     modified_time |-> modified,
     db_updated_at |-> ts]

DbFolder(path, name, depth) == [path |-> path, name |-> name, depth |-> depth]

\* A local Note sent as the arguments of upsert_note at transaction time ts.
FromLocal(n, ts) ==
    DbNote(n.id, n.path, n.name, n.content, n.folder_path, n.depth,
           n.frontmatter, n.size, n.created_time, n.modified_time, ts)

EmptyDb == [note |-> {}, folder |-> {}]

Begin(db) ==
    [note |-> db.note, folder |-> db.folder, ok |-> TRUE,
     notes_touched |-> {}, folders_touched |-> {}]

\* The transaction as the runtime ends it: rolled back after a panic.
Commit(db, tx) == IF tx.ok THEN tx ELSE [Begin(db) EXCEPT !.ok = FALSE]

\* The tables a finished transaction leaves.
DbOf(tx) == [note |-> tx.note, folder |-> tx.folder]

\* note().id().find / note().path().find: the set holding the row, or {}.
note_by_id(tx, id) == {r \in tx.note : r.id = id}

note_by_path(tx, path) == {r \in tx.note : r.path = path}

folder_by_path(tx, path) == {f \in tx.folder : f.path = path}

\* An insert into a table that declares no unique column.
note_insert_unchecked(tx, row) ==
    IF ~tx.ok THEN tx
    ELSE [tx EXCEPT !.note = @ \cup {row},
                    !.notes_touched = @ \cup {row.id}]

\* note().insert: id is the primary key, path is unique.
note_insert(tx, row) ==
    IF ~tx.ok THEN tx
    ELSE IF note_by_id(tx, row.id) # {} \/ note_by_path(tx, row.path) # {}
         THEN [tx EXCEPT !.ok = FALSE]
    ELSE [tx EXCEPT !.note = @ \cup {row},
                    !.notes_touched = @ \cup {row.id}]

\* note().id().delete
note_delete(tx, id) ==
    IF ~tx.ok \/ note_by_id(tx, id) = {} THEN tx
    ELSE [tx EXCEPT !.note = {r \in @ : r.id # id},
                    !.notes_touched = @ \cup {id}]

\* folder().insert: path is the primary key.
folder_insert(tx, row) ==
    IF ~tx.ok THEN tx
    ELSE IF folder_by_path(tx, row.path) # {} THEN [tx EXCEPT !.ok = FALSE]
    ELSE [tx EXCEPT !.folder = @ \cup {row},
                    !.folders_touched = @ \cup {row.path}]

\* folder().path().delete
folder_delete(tx, path) ==
    IF ~tx.ok \/ folder_by_path(tx, path) = {} THEN tx
    ELSE [tx EXCEPT !.folder = {f \in @ : f.path # path},
                    !.folders_touched = @ \cup {path}]

\* The orders in which a table scan may yield the rows of S.
Orders(S) ==
    {o \in [1..Cardinality(S) -> S] : \A i, k \in DOMAIN o : i # k => o[i] # o[k]}

(***************************************************************************)
(* src/spacetime-module/src/note_reducers.rs                               *)
(***************************************************************************)
upsert_note(db, row) ==
    Commit(db, note_insert(note_delete(Begin(db), row.id), row))

delete_note(db, id) ==
    Commit(db, note_delete(Begin(db), id))

update_note_content(db, id, content, frontmatter, size, modified, ts) ==
    LET tx == Begin(db)
    IN  IF note_by_id(tx, id) = {} THEN tx
        ELSE LET e == CHOOSE r \in note_by_id(tx, id) : TRUE
             IN  Commit(db, note_insert(note_delete(tx, id),
                     DbNote(id, e.path, e.name, content, e.folder_path, e.depth,
                            frontmatter, size, e.created_time, modified, ts)))

move_note(db, old_path, new_path, ts) ==
    LET tx == Begin(db)
    IN  IF note_by_path(tx, old_path) = {} THEN tx
        ELSE LET e == CHOOSE r \in note_by_path(tx, old_path) : TRUE
             IN  Commit(db, note_insert(note_delete(tx, e.id),
                     DbNote(e.id, new_path, note_name(new_path), e.content,
                            note_folder_path(new_path), path_depth(new_path),
                            e.frontmatter, e.size, e.created_time,
                            e.modified_time, ts)))

create_note(db, row) ==
    LET tx == Begin(db)
    IN  IF note_by_id(tx, row.id) # {} THEN tx
        ELSE IF note_by_path(tx, row.path) # {} THEN tx
        ELSE Commit(db, note_insert(tx, row))

\* A moved row stamped as if it had just been created.
moved_row_created_now(e, new_path, ts) ==
    DbNote(e.id, new_path, note_name(new_path), e.content,
           note_folder_path(new_path), path_depth(new_path),
           e.frontmatter, e.size, ts, e.modified_time, ts)

\* The row rename_note, update_note_path and move_note insert for e.
moved_row(e, new_path, ts) ==
    DbNote(e.id, new_path, note_name(new_path), e.content,
           note_folder_path(new_path), path_depth(new_path),
           e.frontmatter, e.size, e.created_time, e.modified_time, ts)

rename_note(db, id, new_path, ts) ==
    LET tx == Begin(db)
    IN  IF note_by_id(tx, id) = {} THEN tx
        ELSE IF \E c \in note_by_path(tx, new_path) : c.id # id THEN tx
        ELSE LET e == CHOOSE r \in note_by_id(tx, id) : TRUE
             IN  Commit(db, note_insert(note_delete(tx, id),
                                        moved_row(e, new_path, ts)))

update_note_path(db, id, new_path, ts) ==
    LET tx == Begin(db)
    IN  IF note_by_id(tx, id) = {} THEN tx
        ELSE LET e == CHOOSE r \in note_by_id(tx, id) : TRUE
             IN  Commit(db, note_insert(note_delete(tx, id),
                                        moved_row(e, new_path, ts)))

\* The row append_to_note, prepend_to_note and find_replace_in_note insert.
edited_row(e, new_content, ts) ==
    DbNote(e.id, e.path, e.name, new_content, e.folder_path, e.depth,
           e.frontmatter, Len(new_content), e.created_time, ts, ts)

append_to_note(db, path, content, ts) ==
    LET tx == Begin(db)
    IN  IF note_by_path(tx, path) = {} THEN tx
        ELSE LET e == CHOOSE r \in note_by_path(tx, path) : TRUE
             IN  Commit(db, note_insert(note_delete(tx, e.id),
                                        edited_row(e, e.content \o content, ts)))

prepend_to_note(db, path, content, ts) ==
    LET tx == Begin(db)
    IN  IF note_by_path(tx, path) = {} THEN tx
        ELSE LET e == CHOOSE r \in note_by_path(tx, path) : TRUE
             IN  Commit(db, note_insert(note_delete(tx, e.id),
                                        edited_row(e, content \o e.content, ts)))

\* A find and replace that stops after the first match whatever the flag.
find_replace_first_only(db, path, old_text, new_text, replace_all, ts) ==
    LET tx == Begin(db)
    IN  IF note_by_path(tx, path) = {} THEN tx
        ELSE LET e == CHOOSE r \in note_by_path(tx, path) : TRUE
                 new_content == replacen1(e.content, old_text, new_text)
             IN  IF new_content = e.content THEN tx
                 ELSE Commit(db, note_insert(note_delete(tx, e.id),
                                             edited_row(e, new_content, ts)))

find_replace_in_note(db, path, old_text, new_text, replace_all, ts) ==
    LET tx == Begin(db)
    IN  IF note_by_path(tx, path) = {} THEN tx
        ELSE LET e == CHOOSE r \in note_by_path(tx, path) : TRUE
                 new_content == IF replace_all
                                THEN replace(e.content, old_text, new_text)
                                ELSE replacen1(e.content, old_text, new_text)
             IN  IF new_content = e.content THEN tx
                 ELSE Commit(db, note_insert(note_delete(tx, e.id),
                                             edited_row(e, new_content, ts)))

(***************************************************************************)
(* src/spacetime-module/src/folder_reducers.rs                             *)
(***************************************************************************)
\* A path taken as the caller spelled it.
normalize_untrimmed(path) == path

normalize(path) == trim_end_matches(path, <<"/">>)

create_folder(db, path, name, depth) ==
    LET p == normalize(path)
    IN  IF folder_by_path(db, p) # {} THEN Begin(db)
        ELSE Commit(db, folder_insert(Begin(db), DbFolder(p, name, depth)))

upsert_folder(db, path, name, depth) ==
    LET p == normalize(path)
    IN  Commit(db, folder_insert(folder_delete(Begin(db), p),
                                 DbFolder(p, name, depth)))

\* The rows delete_folder removes.
notes_to_delete(db, p) ==
    {r \in db.note : starts_with(r.folder_path, p \o <<"/">>)}

subfolders_to_delete(db, p) ==
    {f \in db.folder : starts_with(f.path, p) /\ f.path # p}

\* The deletes of a loop over ids (paths); none can violate a constraint.
notes_delete_all(tx, ids) ==
    [tx EXCEPT !.note = {r \in @ : r.id \notin ids},
               !.notes_touched = @ \cup ids]

folders_delete_all(tx, paths) ==
    [tx EXCEPT !.folder = {f \in @ : f.path \notin paths},
               !.folders_touched = @ \cup paths]

delete_folder(db, path) ==
    LET p  == normalize(path)
        tx == Begin(db)
    IN  IF folder_by_path(db, p) = {} THEN tx
        ELSE LET t1 == notes_delete_all(tx, {r.id : r \in notes_to_delete(db, p)})
                 t2 == folders_delete_all(t1,
                           {f.path : f \in subfolders_to_delete(db, p)})
             IN  Commit(db, folder_delete(t2, p))

\* The rows move_folder rewrites.
notes_to_update(db, old) ==
    {r \in db.note : starts_with(r.folder_path, old \o <<"/">>)}

subfolders_to_update(db, old) ==
    {f \in db.folder : starts_with(f.path, old) /\ f.path # old}

\* CASCADE 1, over the notes in the order the scan gave them.
RECURSIVE move_notes(_, _, _, _, _)
move_notes(tx, notes, old_s, new_s, ts) ==
    IF notes = <<>> THEN tx
    ELSE LET n  == Head(notes)
             np == replacen1(n.path, old_s, new_s)
             row == DbNote(n.id, np, n.name, n.content,
                           replacen1(n.folder_path, old_s, new_s),
                           path_depth(np), n.frontmatter, n.size,
                           n.created_time, n.modified_time, ts)
         IN  move_notes(note_insert(note_delete(tx, n.id), row),
                        Tail(notes), old_s, new_s, ts)

\* CASCADE 2, over the subfolders in the order the scan gave them.
RECURSIVE move_subfolders(_, _, _, _)
move_subfolders(tx, subs, old, new) ==
    IF subs = <<>> THEN tx
    ELSE LET f  == Head(subs)
             np == replacen1(f.path, old, new)
         IN  move_subfolders(
                 folder_insert(folder_delete(tx, f.path),
                               DbFolder(np, last_segment(np), path_depth(np))),
                 Tail(subs), old, new)

\* move_folder; notes and subs are the two scans' rows in scan order.
move_folder(db, old_path, new_path, ts, notes, subs) ==
    LET old == normalize(old_path)
        new == normalize(new_path)
    IN  IF folder_by_path(db, old) = {} THEN Begin(db)
        ELSE IF folder_by_path(db, new) # {} THEN Begin(db)
        ELSE LET t1 == move_notes(Begin(db), notes, old \o <<"/">>,
                                  new \o <<"/">>, ts)
                 t2 == move_subfolders(t1, subs, old, new)
                 t3 == folder_insert(folder_delete(t2, old),
                           DbFolder(new, last_segment(new), path_depth(new)))
             IN  Commit(db, t3)

(***************************************************************************)
(* The state of the running daemon, the server and what is in flight.      *)
(***************************************************************************)
VARIABLES
    disk,       \* the vault's files: path -> [exists, text, mtime, btime]
    dirs,       \* the vault's directories
    tracker,    \* ContentTracker.hashes
    db,         \* the server's tables
    cache,      \* the adapter's row cache (conn.db)
    calls,      \* reducer calls of this client not yet run by the server
    updates,    \* transaction updates not yet delivered to this client
    cbq,        \* row callbacks of the delivered transaction not yet run
    fsEvents,   \* paths with a debounced filesystem event pending
    wpc,        \* the watcher thread's position
    wPath,      \* the watcher's event path
    wNote,      \* the watcher's note
    wRaw,       \* the text the watcher last read from the event's file
    wList,      \* the watcher's notes_in_folder still to visit
    cpc,        \* the subscription thread's position
    cChange,    \* the row change whose callback is running
    now,        \* the clock
    inputs,     \* external inputs so far (user edits, other clients' calls)
    uuids,      \* ids Uuid::new_v4 has handed out
    effects,    \* history: the kinds of step taken so far
    rpc,        \* reconcile_on_startup: its position
    rServer,    \* reconcile_on_startup: server_notes
    rLocal,     \* reconcile_on_startup: local_notes
    rTodo       \* reconcile_on_startup: all_ids not yet visited

vars ==
    <<disk, dirs, tracker, db, cache, calls, updates, cbq, fsEvents, wpc,
      wPath, wNote, wRaw, wList, cpc, cChange, now, inputs, uuids, effects, rpc,
      rServer, rLocal, rTodo>>

watcherVars == <<wpc, wPath, wNote, wRaw, wList>>

callbackVars == <<cpc, cChange>>

reconcileVars == <<rpc, rServer, rLocal, rTodo>>

(***************************************************************************)
(* Bounds and the vault of the model: folders F and G, note files a.md and *)
(* b.md in each.                                                           *)
(***************************************************************************)
\* The external inputs of a behaviour, and those of a behaviour that draws
\* them from a menu of more than two.
MaxInputs == 3

MenuInputs == 2

\* The reducer calls and the transaction updates that can be in flight.
MaxCalls == 3

MaxUpdates == 2

DirF == <<"F">>

DirG == <<"G">>

PA == <<"F", "/", "a", ".md">>

PB == <<"F", "/", "b", ".md">>

Dirs == {DirF, DirG}

Paths == {d \o <<"/", n, ".md">> : d \in Dirs, n \in {"a", "b"}}

Bodies == {<<"x">>, <<"y">>, <<"N", "x">>}

\* What a user saves into a new file: a plain body, front-matter without an
\* id, a key that only contains the text spacetime_id:, and an id inside
\* front-matter that is not YAML.
UserTexts ==
    Bodies \cup {<<"F", "N", "t", "N", "F", "N", "x">>,
                 <<"F", "N", "j", "N", "F", "N", "x">>,
                 <<"F", "N", "q", "N", "k3", "N", "F", "N", "x">>}

\* The ids Uuid::new_v4 hands out, in order; "u1" and "u3" are in use.
FreshIds == <<"u2", "u4", "u5">>

NoFile == [exists |-> FALSE, text |-> <<>>, mtime |-> 0, btime |-> 0]

File(text, mtime, btime) ==
    [exists |-> TRUE, text |-> text, mtime |-> mtime, btime |-> btime]

NoRow == [none |-> TRUE]

NoNote == NewNote("", <<>>, <<>>, EmptyObject, 0, 0, 0)

parent(path) == trim_end_matches(note_folder_path(path), <<"/">>)

is_md(path) == path # <<>> /\ path[Len(path)] = ".md"

(***************************************************************************)
(* src/src/scanner.rs                                                      *)
(***************************************************************************)
\* read_note_at on the file f at path: the Note, or NoNote for Ok(None).
read_note_at(f, path) ==
    IF ~f.exists \/ ~is_md(path) THEN NoNote
    ELSE LET parsed == parse_frontmatter(f.text)
         IN  NewNote(extract_spacetime_id(f.text), sanitize_path(path),
                     parsed[1], parsed[2], Len(f.text), f.btime, f.mtime)

\* scan_for_note_by_id: the paths at which the walk can find target_id.
scan_for_note_by_id(d, target_id) ==
    {p \in DOMAIN d : d[p].exists /\ is_md(p)
                      /\ extract_spacetime_id(d[p].text) = target_id}

\* scan_notes: the notes of the files that carry an id.
scan_notes(d) ==
    {read_note_at(d[p], p) :
        p \in {q \in DOMAIN d : d[q].exists /\ is_md(q)
                                /\ extract_spacetime_id(d[q].text) # ""}}

(***************************************************************************)
(* src/src/client.rs: the adapter.                                         *)
(***************************************************************************)
\* DbNote -> LocalNote: every field but db_updated_at, copied.
LocalOf(r) ==
    [id |-> r.id, path |-> r.path, name |-> r.name, content |-> r.content,
     folder_path |-> r.folder_path, depth |-> r.depth,
     frontmatter |-> r.frontmatter, size |-> r.size,
     created_time |-> r.created_time, modified_time |-> r.modified_time]

get_all_notes(c) == {LocalOf(r) : r \in c.note}

\* A cache that knows no path.
get_note_by_path_none(c, path) == {}

get_note_by_path(c, path) == {LocalOf(r) : r \in {x \in c.note : x.path = path}}

Call(op, arg) == [op |-> op, arg |-> arg]

\* The transaction the server runs for a call of this client at time ts.
RunCall(d, call, ts) ==
    CASE call.op = "upsert_note"   -> upsert_note(d, FromLocal(call.arg, ts))
      [] call.op = "delete_note"   -> delete_note(d, call.arg)
      [] call.op = "upsert_folder" ->
             upsert_folder(d, call.arg.path, call.arg.name, call.arg.depth)
      [] OTHER                     -> delete_folder(d, call.arg)

(***************************************************************************)
(* The row changes of a transaction, as the SDK hands them to on_insert,   *)
(* on_update and on_delete.  A note row deleted and inserted again is an   *)
(* update even when the model's coarse clock gives both the same           *)
(* db_updated_at.                                                          *)
(***************************************************************************)
Change(table, op, old, new) ==
    [table |-> table, op |-> op, old |-> old, new |-> new]

NoteChanges(d, tx) ==
    {Change("note",
            IF note_by_id(d, i) = {} THEN "insert"
            ELSE IF note_by_id(tx, i) = {} THEN "delete" ELSE "update",
            IF note_by_id(d, i) = {} THEN NoRow
            ELSE CHOOSE r \in note_by_id(d, i) : TRUE,
            IF note_by_id(tx, i) = {} THEN NoRow
            ELSE CHOOSE r \in note_by_id(tx, i) : TRUE) :
        i \in {k \in tx.notes_touched :
                  note_by_id(d, k) # {} \/ note_by_id(tx, k) # {}}}

FolderChanges(d, tx) ==
    {Change("folder",
            IF folder_by_path(d, q) = {} THEN "insert"
            ELSE IF folder_by_path(tx, q) = {} THEN "delete" ELSE "update",
            IF folder_by_path(d, q) = {} THEN NoRow
            ELSE CHOOSE f \in folder_by_path(d, q) : TRUE,
            IF folder_by_path(tx, q) = {} THEN NoRow
            ELSE CHOOSE f \in folder_by_path(tx, q) : TRUE) :
        q \in {k \in tx.folders_touched :
                  folder_by_path(d, k) # folder_by_path(tx, k)}}

\* No callback is running.
NoChange == Change("", "", NoRow, NoRow)

Changes(d, tx) == NoteChanges(d, tx) \cup FolderChanges(d, tx)

\* The cache after the changes of one transaction update.
ApplyChange(c, ch) ==
    IF ch.table = "note"
    THEN [c EXCEPT !.note = (@ \ {ch.old}) \cup
                            (IF ch.new = NoRow THEN {} ELSE {ch.new})]
    ELSE [c EXCEPT !.folder = (@ \ {ch.old}) \cup
                              (IF ch.new = NoRow THEN {} ELSE {ch.new})]

RECURSIVE ApplyChanges(_, _)
ApplyChanges(c, chs) ==
    IF chs = <<>> THEN c ELSE ApplyChanges(ApplyChange(c, Head(chs)), Tail(chs))

(***************************************************************************)
(* The filesystem, the server and the history, as the steps use them.      *)
(***************************************************************************)
under(dir, path) == starts_with(path, dir \o <<"/">>)

\* std::fs::write / rename onto path: the creation time of a file that is
\* already there stays.
written(d, path, text, mtime) ==
    [d EXCEPT ![path] = File(text, mtime,
                             IF d[path].exists THEN d[path].btime ELSE mtime)]

\* raw_content.contains("spacetime_id:")
contains_spacetime_id(raw) ==
    \E i \in 1..Len(raw) : raw[i] \in IdKeyToks \cup {"j"}

\* The tracker holds the hash of content for id.
holds(map, id, content) == id \in Ids /\ map[id] = hash(content)

\* The server commits tx and queues its row changes for this client, in the
\* order the SDK will run their callbacks.
Broadcast(tx) ==
    /\ Len(updates) < MaxUpdates
    /\ db' = DbOf(tx)
    /\ \E chs \in Orders(Changes(db, tx)) :
           updates' = IF chs = <<>> THEN updates ELSE Append(updates, chs)

\* A reducer call leaves this client.
Send(call) == Len(calls) < MaxCalls /\ calls' = Append(calls, call)

Tick == inputs < MaxInputs /\ inputs' = inputs + 1 /\ now' = now + 1

(***************************************************************************)
(* External inputs: the user's editor and file manager, other clients.     *)
(***************************************************************************)
\* The user saves text into a file that carries no id of its own making.
UserWrite(path, text) ==
    /\ Tick
    /\ parent(path) \in dirs
    /\ disk' = written(disk, path, text, now')
    /\ fsEvents' = fsEvents \cup {path}
    /\ UNCHANGED <<dirs, tracker, db, cache, calls, updates, cbq, watcherVars,
                   callbackVars, uuids, effects, reconcileVars>>

\* The user edits the body of a synced file and keeps its front-matter.
UserEdit(path, body) ==
    /\ Tick
    /\ disk[path].exists
    /\ extract_spacetime_id(disk[path].text) # ""
    /\ parse_frontmatter(disk[path].text)[1] # body
    /\ disk' = written(disk, path,
                       FreshBlock(extract_spacetime_id(disk[path].text)) \o body,
                       now')
    /\ fsEvents' = fsEvents \cup {path}
    /\ UNCHANGED <<dirs, tracker, db, cache, calls, updates, cbq, watcherVars,
                   callbackVars, uuids, effects, reconcileVars>>

UserDelete(path) ==
    /\ Tick
    /\ disk[path].exists
    /\ disk' = [disk EXCEPT ![path] = NoFile]
    /\ fsEvents' = fsEvents \cup {path}
    /\ UNCHANGED <<dirs, tracker, db, cache, calls, updates, cbq, watcherVars,
                   callbackVars, uuids, effects, reconcileVars>>

\* The user renames the folder from to the name to.
UserRenameFolder(from, to) ==
    /\ Tick
    /\ from \in dirs /\ to \notin dirs
    /\ dirs' = (dirs \ {from}) \cup {to}
    /\ disk' = [p \in Paths |->
                   IF under(from, p) THEN NoFile
                   ELSE IF under(to, p)
                        THEN disk[from \o SubSeq(p, Len(to) + 1, Len(p))]
                        ELSE disk[p]]
    /\ fsEvents' = fsEvents \cup {from, to}
    /\ UNCHANGED <<tracker, db, cache, calls, updates, cbq, watcherVars,
                   callbackVars, uuids, effects, reconcileVars>>

\* Another client calls update_note_content.
RemoteEdit(id, body) ==
    /\ Tick
    /\ \E r \in note_by_id(db, id) :
           /\ r.content # body
           /\ Broadcast(update_note_content(db, id, body, r.frontmatter,
                                            Len(body), now', now'))
    /\ UNCHANGED <<disk, dirs, tracker, cache, calls, cbq, fsEvents,
                   watcherVars, callbackVars, uuids, effects, reconcileVars>>

\* Another client uploads a note of its own.
RemoteCreate(id, path, body) ==
    /\ Tick
    /\ note_by_id(db, id) = {}
    /\ Broadcast(upsert_note(db,
           FromLocal(NewNote(id, path, body, EmptyObject, Len(body), now', now'),
                     now')))
    /\ UNCHANGED <<disk, dirs, tracker, cache, calls, cbq, fsEvents,
                   watcherVars, callbackVars, uuids, effects, reconcileVars>>

\* Another client calls delete_note.
RemoteDelete(id) ==
    /\ Tick
    /\ note_by_id(db, id) # {}
    /\ Broadcast(delete_note(db, id))
    /\ UNCHANGED <<disk, dirs, tracker, cache, calls, cbq, fsEvents,
                   watcherVars, callbackVars, uuids, effects, reconcileVars>>

(***************************************************************************)
(* The server runs this client's calls in order; the SDK applies each      *)
(* transaction update to the cache and then runs its row callbacks, one    *)
(* transaction at a time, on the subscription thread.                      *)
(***************************************************************************)
ServerApply ==
    /\ calls # <<>>
    /\ Broadcast(RunCall(db, Head(calls), now))
    /\ calls' = Tail(calls)
    /\ UNCHANGED <<disk, dirs, tracker, cache, cbq, fsEvents, watcherVars,
                   callbackVars, now, inputs, uuids, effects, reconcileVars>>

Deliver ==
    /\ updates # <<>> /\ cbq = <<>> /\ cpc = "idle"
    /\ cache' = ApplyChanges(cache, Head(updates))
    /\ cbq' = Head(updates)
    /\ updates' = Tail(updates)
    /\ UNCHANGED <<disk, dirs, tracker, db, calls, fsEvents, watcherVars,
                   callbackVars, now, inputs, uuids, effects, reconcileVars>>

(***************************************************************************)
(* src/src/main.rs: the row callbacks, on the subscription thread.  Each   *)
(* action is one statement on shared state (the tracker's mutex, the       *)
(* filesystem); the watcher thread may run between two of them.            *)
(***************************************************************************)
\* write_note_to_disk(vault, note) at time t: <<disk, dirs, events>> after it.
write_note_to_disk(d, ds, note, t) ==
    <<[d EXCEPT ![note.path] = File(writer_text(note), note.modified_time, t)],
      ds \cup {parent(note.path)},
      {note.path} \cup ({parent(note.path)} \ ds)>>

\* on_note_inserted up to its echo check.
OnNoteInserted ==
    /\ cpc = "idle" /\ cbq # <<>>
    /\ Head(cbq).table = "note" /\ Head(cbq).op = "insert"
    /\ LET new == Head(cbq).new
           r   == is_modified(tracker, new.id, new.content)
       IN  /\ tracker' = r.map
           /\ cpc' = IF r.ret THEN "update" ELSE "idle"
           /\ effects' = IF r.ret THEN effects
                         ELSE effects \cup
                              {"insert_echo"}
           /\ cChange' = IF r.ret THEN Head(cbq) ELSE NoChange
    /\ cbq' = Tail(cbq)
    /\ UNCHANGED <<disk, dirs, db, cache, calls, updates, fsEvents,
                   watcherVars, now, inputs, uuids, reconcileVars>>

\* on_note_updated up to its echo check.
OnNoteUpdated ==
    /\ cpc = "idle" /\ cbq # <<>>
    /\ Head(cbq).table = "note" /\ Head(cbq).op = "update"
    /\ LET old == Head(cbq).old
           new == Head(cbq).new
           path_changed == old.path # new.path
           r   == is_modified(tracker, new.id, new.content)
       IN  /\ tracker' = r.map
           /\ cpc' = IF ~path_changed /\ ~r.ret THEN "idle"
                     ELSE IF path_changed THEN "remove_old" ELSE "update"
           /\ effects' = effects \cup
                  (IF ~path_changed /\ ~r.ret THEN {"update_echo"} ELSE {}) \cup
                  (IF wpc = "is_modified" /\ wNote.id = new.id
                   THEN {"between_checks"} ELSE {})
           /\ cChange' = IF ~path_changed /\ ~r.ret THEN NoChange ELSE Head(cbq)
    /\ cbq' = Tail(cbq)
    /\ UNCHANGED <<disk, dirs, db, cache, calls, updates, fsEvents,
                   watcherVars, now, inputs, uuids, reconcileVars>>

\* on_note_updated: the old file of a rename is removed.
OnNoteUpdatedRemoveOld ==
    /\ cpc = "remove_old"
    /\ IF disk[cChange.old.path].exists
       THEN /\ disk' = [disk EXCEPT ![cChange.old.path] = NoFile]
            /\ fsEvents' = fsEvents \cup {cChange.old.path}
       ELSE UNCHANGED <<disk, fsEvents>>
    /\ cpc' = "update"
    /\ UNCHANGED <<dirs, tracker, db, cache, calls, updates, cbq, watcherVars,
                   cChange, now, inputs, uuids, effects, reconcileVars>>

\* tracker.update before the write, in both handlers.
OnNoteTrackerUpdate ==
    /\ cpc = "update"
    /\ tracker' = tracker_update(tracker, cChange.new.id, cChange.new.content)
    /\ cpc' = "write"
    /\ UNCHANGED <<disk, dirs, db, cache, calls, updates, cbq, fsEvents,
                   watcherVars, cChange, now, inputs, uuids, effects,
                   reconcileVars>>

\* write_note_to_disk, in both handlers.
OnNoteWrite ==
    /\ cpc = "write"
    /\ LET note == LocalOf(cChange.new)
           w    == write_note_to_disk(disk, dirs, note, now)
       IN  /\ disk' = w[1]
           /\ dirs' = w[2]
           /\ fsEvents' = fsEvents \cup w[3]
           /\ effects' = effects \cup
                  {IF cChange.op = "insert" THEN "on_note_inserted"
                   ELSE "on_note_updated"}
    /\ cpc' = "idle"
    /\ cChange' = NoChange
    /\ UNCHANGED <<tracker, db, cache, calls, updates, cbq, watcherVars, now,
                   inputs, uuids, reconcileVars>>

\* on_note_deleted: the file is removed if it is there.
OnNoteDeleted ==
    /\ cpc = "idle" /\ cbq # <<>>
    /\ Head(cbq).table = "note" /\ Head(cbq).op = "delete"
    /\ LET old == Head(cbq).old
       IN  IF disk[old.path].exists
           THEN /\ disk' = [disk EXCEPT ![old.path] = NoFile]
                /\ fsEvents' = fsEvents \cup {old.path}
                /\ cpc' = "remove"
                /\ cChange' = Head(cbq)
           ELSE UNCHANGED <<disk, fsEvents, cpc, cChange>>
    /\ cbq' = Tail(cbq)
    /\ UNCHANGED <<dirs, tracker, db, cache, calls, updates, watcherVars, now,
                   inputs, uuids, effects, reconcileVars>>

\* on_note_deleted: tracker.remove after a successful removal.
OnNoteDeletedRemove ==
    /\ cpc = "remove"
    /\ tracker' = tracker_remove(tracker, cChange.old.id)
    /\ cpc' = "idle"
    /\ cChange' = NoChange
    /\ UNCHANGED <<disk, dirs, db, cache, calls, updates, cbq, fsEvents,
                   watcherVars, now, inputs, uuids, effects, reconcileVars>>

\* on_folder_inserted: create_dir_all unless the path exists.
OnFolderInserted ==
    /\ cpc = "idle" /\ cbq # <<>>
    /\ Head(cbq).table = "folder" /\ Head(cbq).op = "insert"
    /\ LET path == Head(cbq).new.path
       IN  IF path \notin dirs
           THEN dirs' = dirs \cup {path} /\ fsEvents' = fsEvents \cup {path}
           ELSE UNCHANGED <<dirs, fsEvents>>
    /\ cbq' = Tail(cbq)
    /\ UNCHANGED <<disk, tracker, db, cache, calls, updates, watcherVars,
                   callbackVars, now, inputs, uuids, effects, reconcileVars>>

\* on_folder_deleted: remove_dir_all if the directory exists.
OnFolderDeleted ==
    /\ cpc = "idle" /\ cbq # <<>>
    /\ Head(cbq).table = "folder" /\ Head(cbq).op = "delete"
    /\ LET path == Head(cbq).old.path
           gone == {p \in Paths : under(path, p) /\ disk[p].exists}
       IN  IF path \in dirs
           THEN /\ dirs' = dirs \ {path}
                /\ disk' = [p \in Paths |-> IF p \in gone THEN NoFile ELSE disk[p]]
                /\ fsEvents' = fsEvents \cup {path} \cup gone
           ELSE UNCHANGED <<dirs, disk, fsEvents>>
    /\ cbq' = Tail(cbq)
    /\ UNCHANGED <<tracker, db, cache, calls, updates, watcherVars,
                   callbackVars, now, inputs, uuids, effects, reconcileVars>>

(***************************************************************************)
(* src/src/watcher.rs: the debouncer's handler, on the watcher thread, one *)
(* event path at a time.  Each action is one statement on shared state.    *)
(***************************************************************************)
\* The handler is done with the event (continue, or the end of the branch).
WatcherDone ==
    /\ wpc' = "idle" /\ wPath' = <<>> /\ wNote' = NoNote /\ wRaw' = <<>>
    /\ wList' = <<>>

\* A markdown file is there: read_note_at.
WatcherReadNote(path) ==
    /\ wpc = "idle" /\ path \in fsEvents
    /\ is_md(path) /\ disk[path].exists
    /\ fsEvents' = fsEvents \ {path}
    /\ wpc' = "echo_check"
    /\ wPath' = path
    /\ wNote' = read_note_at(disk[path], path)
    /\ wRaw' = disk[path].text
    /\ UNCHANGED <<disk, dirs, tracker, db, cache, calls, updates, cbq, wList,
                   callbackVars, now, inputs, uuids, effects, reconcileVars>>

\* The echo check: has_changed on a note that carries an id.
WatcherEchoCheck ==
    /\ wpc = "echo_check"
    /\ IF wNote.id # "" /\ ~has_changed(tracker, wNote.id, wNote.content)
       THEN /\ WatcherDone
            /\ effects' = effects \cup
                   {"watcher_echo"}
       ELSE /\ wpc' = IF wNote.id = "" THEN "path_check" ELSE "is_modified"
            /\ UNCHANGED <<wPath, wNote, wRaw, wList, effects>>
    /\ UNCHANGED <<disk, dirs, tracker, db, cache, calls, updates, cbq,
                   fsEvents, callbackVars, now, inputs, uuids, reconcileVars>>

\* No id: the safety stop when the cache knows the path.
WatcherPathCheck ==
    /\ wpc = "path_check"
    /\ IF get_note_by_path(cache, wNote.path) # {}
       THEN /\ WatcherDone
            /\ effects' = effects \cup {"safety_stop"}
       ELSE /\ wpc' = "read_raw"
            /\ UNCHANGED <<wPath, wNote, wRaw, wList, effects>>
    /\ UNCHANGED <<disk, dirs, tracker, db, cache, calls, updates, cbq,
                   fsEvents, callbackVars, now, inputs, uuids, reconcileVars>>

\* No id: the raw text is read again, and the safety brake.
WatcherReadRaw ==
    /\ wpc = "read_raw"
    /\ IF ~disk[wPath].exists \/ contains_spacetime_id(disk[wPath].text)
       THEN WatcherDone
       ELSE /\ wpc' = "inject"
            /\ wRaw' = disk[wPath].text
            /\ UNCHANGED <<wPath, wNote, wList>>
    /\ UNCHANGED <<disk, dirs, tracker, db, cache, calls, updates, cbq,
                   fsEvents, callbackVars, now, inputs, uuids, effects,
                   reconcileVars>>

\* No id: a fresh id is written into the file with std::fs::write.
WatcherInject ==
    /\ wpc = "inject"
    /\ LET new_id == FreshIds[uuids + 1]
           new_content == inject_spacetime_id(wRaw, new_id)
       IN  IF parent(wPath) \in dirs
           THEN /\ disk' = written(disk, wPath, new_content, now)
                /\ fsEvents' = fsEvents \cup {wPath}
                /\ wNote' = [wNote EXCEPT !.id = new_id]
                /\ wpc' = "is_modified"
                /\ effects' = effects \cup
                       {"inject"}
                /\ UNCHANGED <<wPath, wRaw, wList>>
           ELSE /\ WatcherDone
                /\ UNCHANGED <<disk, fsEvents, effects>>
    /\ uuids' = uuids + 1
    /\ UNCHANGED <<dirs, tracker, db, cache, calls, updates, cbq, callbackVars,
                   now, inputs, reconcileVars>>

\* tracker.is_modified decides the upload.
WatcherIsModified ==
    /\ wpc = "is_modified"
    /\ LET r == is_modified(tracker, wNote.id, wNote.content)
       IN  /\ tracker' = r.map
           /\ IF r.ret
              THEN wpc' = "upsert" /\ UNCHANGED <<wPath, wNote, wRaw, wList>>
              ELSE WatcherDone
    /\ UNCHANGED <<disk, dirs, db, cache, calls, updates, cbq, fsEvents,
                   callbackVars, now, inputs, uuids, effects, reconcileVars>>

\* client.upsert_note(&note)
WatcherUpsert ==
    /\ wpc = "upsert"
    /\ Send(Call("upsert_note", wNote))
    /\ effects' = effects \cup
           {"watcher_upsert"}
    /\ wpc' = "update"
    /\ UNCHANGED <<disk, dirs, tracker, db, cache, updates, cbq, fsEvents,
                   wPath, wNote, wRaw, wList, callbackVars, now, inputs, uuids,
                   reconcileVars>>

\* tracker.update(&note.id, &note.content) after the upload.
WatcherUpdate ==
    /\ wpc = "update"
    /\ tracker' = tracker_update(tracker, wNote.id, wNote.content)
    /\ WatcherDone
    /\ UNCHANGED <<disk, dirs, db, cache, calls, updates, cbq, fsEvents,
                   callbackVars, now, inputs, uuids, effects, reconcileVars>>

\* A markdown file is gone: the cache is asked for the note at its path.
WatcherFileGone(path) ==
    /\ wpc = "idle" /\ path \in fsEvents
    /\ is_md(path) /\ ~disk[path].exists
    /\ fsEvents' = fsEvents \ {path}
    /\ LET hit == {n \in get_all_notes(cache) : n.path = sanitize_path(path)}
       IN  IF hit = {}
           THEN UNCHANGED <<calls, watcherVars>>
           ELSE \E n \in hit :
                    /\ Send(Call("delete_note", n.id))
                    /\ wpc' = "remove" /\ wNote' = n
                    /\ UNCHANGED <<wPath, wRaw, wList>>
    /\ UNCHANGED <<disk, dirs, tracker, db, cache, updates, cbq, callbackVars,
                   now, inputs, uuids, effects, reconcileVars>>

\* tracker.remove after delete_note.
WatcherRemove ==
    /\ wpc = "remove"
    /\ tracker' = tracker_remove(tracker, wNote.id)
    /\ WatcherDone
    /\ UNCHANGED <<disk, dirs, db, cache, calls, updates, cbq, fsEvents,
                   callbackVars, now, inputs, uuids, effects, reconcileVars>>

\* The path is a directory: upsert_folder.
WatcherDirExists(path) ==
    /\ wpc = "idle" /\ path \in fsEvents
    /\ ~is_md(path) /\ path \in dirs
    /\ fsEvents' = fsEvents \ {path}
    /\ Send(Call("upsert_folder",
                                   NewFolder(sanitize_path(path))))
    /\ UNCHANGED <<disk, dirs, tracker, db, cache, updates, cbq, watcherVars,
                   callbackVars, now, inputs, uuids, effects, reconcileVars>>

\* The path has no extension and is gone: the notes the cache has under it.
WatcherDirGone(path) ==
    /\ wpc = "idle" /\ path \in fsEvents
    /\ ~is_md(path) /\ path \notin dirs
    /\ fsEvents' = fsEvents \ {path}
    /\ \E notes_in_folder \in
           Orders({n \in get_all_notes(cache) :
                      starts_with(n.path, sanitize_path(path) \o <<"/">>)}) :
           wList' = notes_in_folder
    /\ wpc' = "recover"
    /\ wPath' = path
    /\ UNCHANGED <<disk, dirs, tracker, db, cache, calls, updates, cbq, wNote,
                   wRaw, callbackVars, now, inputs, uuids, effects,
                   reconcileVars>>

\* One round of the loop over notes_in_folder up to its reducer call, or
\* delete_folder after the loop.
WatcherRecover ==
    /\ wpc = "recover"
    /\ IF wList = <<>>
       THEN /\ Send(Call("delete_folder", sanitize_path(wPath)))
            /\ WatcherDone
            /\ UNCHANGED effects
       ELSE LET note  == Head(wList)
                found == scan_for_note_by_id(disk, note.id)
            IN  IF disk[note.path].exists
                THEN /\ wList' = Tail(wList)
                     /\ UNCHANGED <<calls, wpc, wPath, wNote, wRaw, effects>>
                ELSE IF found = {}
                THEN /\ Send(Call("delete_note", note.id))
                     /\ wpc' = "recover_remove"
                     /\ wNote' = note
                     /\ UNCHANGED <<wPath, wRaw, wList, effects>>
                ELSE \E q \in found :
                     LET new_note == read_note_at(disk[q], q)
                     IN  /\ Send(Call("upsert_note", new_note))
                         /\ effects' = effects \cup
                                {"recovery_upsert"}
                         /\ wpc' = "recover_update"
                         /\ wNote' = new_note
                         /\ UNCHANGED <<wPath, wRaw, wList>>
    /\ UNCHANGED <<disk, dirs, tracker, db, cache, updates, cbq, fsEvents,
                   callbackVars, now, inputs, uuids, reconcileVars>>

\* tracker.update after the recovery's upsert_note.
WatcherRecoverUpdate ==
    /\ wpc = "recover_update"
    /\ tracker' = tracker_update(tracker, wNote.id, wNote.content)
    /\ wpc' = "recover" /\ wList' = Tail(wList) /\ wNote' = NoNote
    /\ UNCHANGED <<disk, dirs, db, cache, calls, updates, cbq, fsEvents, wPath,
                   wRaw, callbackVars, now, inputs, uuids, effects,
                   reconcileVars>>

\* tracker.remove after the recovery's delete_note.
WatcherRecoverRemove ==
    /\ wpc = "recover_remove"
    /\ tracker' = tracker_remove(tracker, wNote.id)
    /\ wpc' = "recover" /\ wList' = Tail(wList) /\ wNote' = NoNote
    /\ UNCHANGED <<disk, dirs, db, cache, calls, updates, cbq, fsEvents, wPath,
                   wRaw, callbackVars, now, inputs, uuids, effects,
                   reconcileVars>>

(***************************************************************************)
(* The running daemon.  It starts where startup leaves a vault with one    *)
(* synced note: "u1" in F/a.md, the same row on the server and in the      *)
(* cache, its hash in the tracker, the callbacks registered and the        *)
(* watcher started (main.rs).                                              *)
(***************************************************************************)
InitFile == File(FreshBlock("u1") \o <<"x">>, 0, 0)

InitRow == FromLocal(read_note_at(InitFile, PA), 0)

InitDb == [note |-> {InitRow}, folder |-> {NewFolder(DirF)}]

Init ==
    /\ disk = [p \in Paths |-> IF p = PA THEN InitFile ELSE NoFile]
    /\ dirs = {DirF}
    /\ tracker = tracker_update(EmptyTracker, "u1", InitRow.content)
    /\ db = InitDb
    /\ cache = InitDb
    /\ calls = <<>> /\ updates = <<>> /\ cbq = <<>> /\ fsEvents = {}
    /\ wpc = "idle" /\ wPath = <<>> /\ wNote = NoNote /\ wRaw = <<>>
    /\ wList = <<>>
    /\ cpc = "idle" /\ cChange = NoChange
    /\ now = 0 /\ inputs = 0 /\ uuids = 0 /\ effects = {}
    /\ rpc = "off" /\ rServer = {} /\ rLocal = {} /\ rTodo = {}

\* The user works on notes and another client edits and creates notes.
External ==
    \/ UserEdit(PA, <<"y">>)
    \/ UserWrite(PA, <<"y">>)
    \/ \E text \in UserTexts : UserWrite(PB, text)
    \/ RemoteEdit("u1", <<"z">>)
    \/ RemoteCreate("u3", PB, <<"z">>)

Server == ServerApply \/ Deliver

NoteCallbacks ==
    \/ OnNoteInserted
    \/ OnNoteUpdated
    \/ OnNoteTrackerUpdate
    \/ OnNoteWrite

WatcherFile ==
    \/ \E p \in Paths : WatcherReadNote(p)
    \/ WatcherEchoCheck
    \/ WatcherPathCheck
    \/ WatcherReadRaw
    \/ WatcherInject
    \/ WatcherIsModified
    \/ WatcherUpsert
    \/ WatcherUpdate

Next ==
    \/ inputs < MenuInputs /\ External
    \/ Server
    \/ NoteCallbacks
    \/ WatcherFile

Spec == Init /\ [][Next]_vars

\* Nothing is in flight and both threads are idle.
Quiescent ==
    /\ calls = <<>> /\ updates = <<>> /\ cbq = <<>> /\ fsEvents = {}
    /\ wpc = "idle" /\ cpc = "idle"

(***************************************************************************)
(* The same daemon while the user and another client edit the note "u1",   *)
(* with the fairness of its scheduling: the debouncer hands over every     *)
(* event, the server runs every call, the SDK delivers every update and    *)
(* both threads keep running.                                              *)
(***************************************************************************)
ExternalEdit == UserEdit(PA, <<"y">>) \/ RemoteEdit("u1", <<"z">>)

EditCallbacks == OnNoteUpdated \/ OnNoteTrackerUpdate \/ OnNoteWrite

WatcherEdit ==
    \/ \E p \in Paths : WatcherReadNote(p)
    \/ WatcherEchoCheck
    \/ WatcherIsModified
    \/ WatcherUpsert
    \/ WatcherUpdate

EditSteps == Server \/ EditCallbacks \/ WatcherEdit

NextEdit == ExternalEdit \/ EditSteps

SpecEdit == Init /\ [][NextEdit]_vars

NextFair == (inputs < MenuInputs /\ ExternalEdit) \/ EditSteps

Fairness ==
    /\ WF_vars(Server)
    /\ WF_vars(EditCallbacks)
    /\ WF_vars(WatcherEdit)

FairSpec == Init /\ [][NextFair]_vars /\ Fairness

(***************************************************************************)
(* The same daemon while the user edits, deletes and renames the folder.   *)
(***************************************************************************)
ExternalRename ==
    \/ UserEdit(PA, <<"y">>)
    \/ UserDelete(PA)
    \/ UserRenameFolder(DirF, DirG)

FolderCallbacks ==
    \/ OnNoteUpdatedRemoveOld
    \/ OnNoteDeleted
    \/ OnNoteDeletedRemove
    \/ OnFolderInserted
    \/ OnFolderDeleted

WatcherFolder ==
    \/ \E p \in Paths : WatcherFileGone(p)
    \/ WatcherRemove
    \/ \E p \in Dirs : WatcherDirExists(p)
    \/ \E p \in Dirs : WatcherDirGone(p)
    \/ WatcherRecover
    \/ WatcherRecoverUpdate
    \/ WatcherRecoverRemove

NextRename ==
    \/ inputs < MenuInputs /\ ExternalRename
    \/ Server
    \/ OnNoteUpdated \/ OnNoteTrackerUpdate \/ OnNoteWrite
    \/ FolderCallbacks
    \/ \E p \in Paths : WatcherReadNote(p)
    \/ WatcherEchoCheck \/ WatcherIsModified \/ WatcherUpsert \/ WatcherUpdate
    \/ WatcherFolder

SpecRename == Init /\ [][NextRename]_vars


(***************************************************************************)
(* src/src/reconcile.rs: reconcile_on_startup, which main.rs runs after    *)
(* wait_for_sync and before it registers the callbacks and starts the      *)
(* watcher.  One action per arm of its match.                              *)
(***************************************************************************)
\* server.modified_time > local.modified_time, with ties counted too.
server_is_newer_or_same(local, server) ==
    server.modified_time >= local.modified_time

server_is_newer(local, server) == server.modified_time > local.modified_time

local_is_newer(local, server) == local.modified_time > server.modified_time

\* local_map.get(id), server_map.get(id): the set holding the note, or {}.
local_get(id) == {n \in rLocal : n.id = id}

server_get(id) == {n \in rServer : n.id = id}

ReconcileStart ==
    /\ rpc = "start"
    /\ rServer' = get_all_notes(cache)
    /\ rLocal' = scan_notes(disk)
    /\ rTodo' = {n.id : n \in get_all_notes(cache) \cup scan_notes(disk)}
    /\ rpc' = "loop"
    /\ UNCHANGED <<disk, dirs, tracker, db, cache, calls, updates, cbq,
                   fsEvents, watcherVars, callbackVars, now, inputs, uuids,
                   effects>>

\* (Some(local), Some(server))
ReconcileBoth(id) ==
    /\ rpc = "loop" /\ id \in rTodo
    /\ \E local \in local_get(id), server \in server_get(id) :
           IF server_is_newer(local, server)
           THEN LET w == write_note_to_disk(disk, dirs, server, now)
                IN  /\ tracker' = tracker_update(tracker, server.id, server.content)
                    /\ disk' = w[1] /\ dirs' = w[2]
                    /\ effects' = effects \cup {"downloaded_newer"}
                    /\ UNCHANGED calls
           ELSE IF local_is_newer(local, server)
           THEN /\ tracker' = tracker_update(tracker, local.id, local.content)
                /\ Send(Call("upsert_note", local))
                /\ effects' = effects \cup {"uploaded_newer"}
                /\ UNCHANGED <<disk, dirs>>
           ELSE /\ tracker' = tracker_update(tracker, local.id, local.content)
                /\ effects' = effects \cup {"unchanged"}
                /\ UNCHANGED <<disk, dirs, calls>>
    /\ rTodo' = rTodo \ {id}
    /\ UNCHANGED <<db, cache, updates, cbq, fsEvents, watcherVars,
                   callbackVars, now, inputs, uuids, rpc, rServer, rLocal>>

\* (None, Some(server))
ReconcileServerOnly(id) ==
    /\ rpc = "loop" /\ id \in rTodo
    /\ local_get(id) = {}
    /\ \E server \in server_get(id) :
           LET w == write_note_to_disk(disk, dirs, server, now)
           IN  /\ tracker' = tracker_update(tracker, server.id, server.content)
               /\ disk' = w[1] /\ dirs' = w[2]
    /\ effects' = effects \cup {"downloaded_new"}
    /\ rTodo' = rTodo \ {id}
    /\ UNCHANGED <<db, cache, calls, updates, cbq, fsEvents, watcherVars,
                   callbackVars, now, inputs, uuids, rpc, rServer, rLocal>>

\* (Some(local), None)
ReconcileLocalOnly(id) ==
    /\ rpc = "loop" /\ id \in rTodo
    /\ server_get(id) = {}
    /\ \E local \in local_get(id) :
           /\ tracker' = tracker_update(tracker, local.id, local.content)
           /\ Send(Call("upsert_note", local))
    /\ effects' = effects \cup {"uploaded_new"}
    /\ rTodo' = rTodo \ {id}
    /\ UNCHANGED <<disk, dirs, db, cache, updates, cbq, fsEvents, watcherVars,
                   callbackVars, now, inputs, uuids, rpc, rServer, rLocal>>

ReconcileDone ==
    /\ rpc = "loop" /\ rTodo = {}
    /\ rpc' = "done"
    /\ UNCHANGED <<disk, dirs, tracker, db, cache, calls, updates, cbq,
                   fsEvents, watcherVars, callbackVars, now, inputs, uuids,
                   effects, rServer, rLocal, rTodo>>

\* A transaction update reaches the cache before any callback is registered.
DeliverAtStartup ==
    /\ rpc # "off" /\ updates # <<>>
    /\ cache' = ApplyChanges(cache, Head(updates))
    /\ updates' = Tail(updates)
    /\ UNCHANGED <<disk, dirs, tracker, db, calls, cbq, fsEvents, watcherVars,
                   callbackVars, now, inputs, uuids, effects, reconcileVars>>

\* What the daemon can find at startup: each of three ids is absent or
\* present on either side, with a modification time of 1 or 2; the server
\* may hold "u1" at the path where the vault holds "u2".
HomePath(id) ==
    CASE id = "u1" -> PA
      [] id = "u2" -> PB
      [] OTHER     -> <<"G", "/", "a", ".md">>

StartIds == {"u1", "u2", "u3"}

StartTimes == {1, 2}

LocalFile(id, t) == File(FreshBlock(id) \o <<"x">>, t, 1)

ServerRow(id, path, t) ==
    FromLocal(NewNote(id, path, <<"z">>, EmptyObject, 1, 1, t), t)

InitReconcile ==
    /\ \E lt \in [StartIds -> {0} \cup StartTimes] :
           disk = [p \in Paths |->
                      IF \E id \in StartIds : HomePath(id) = p /\ lt[id] # 0
                      THEN LET id == CHOOSE i \in StartIds : HomePath(i) = p
                           IN  LocalFile(id, lt[id])
                      ELSE NoFile]
    /\ \E st \in [StartIds -> {0} \cup StartTimes], p1 \in {PA, PB} :
           /\ (p1 = PB => st["u2"] = 0)
           /\ db = [note |-> {ServerRow(id, IF id = "u1" THEN p1
                                            ELSE HomePath(id), st[id]) :
                                 id \in {i \in StartIds : st[i] # 0}},
                    folder |-> {}]
    /\ cache = db
    /\ dirs = Dirs
    /\ tracker = EmptyTracker
    /\ calls = <<>> /\ updates = <<>> /\ cbq = <<>> /\ fsEvents = {}
    /\ wpc = "idle" /\ wPath = <<>> /\ wNote = NoNote /\ wRaw = <<>>
    /\ wList = <<>>
    /\ cpc = "idle" /\ cChange = NoChange
    /\ now = 3 /\ inputs = 0 /\ uuids = 0 /\ effects = {}
    /\ rpc = "start" /\ rServer = {} /\ rLocal = {} /\ rTodo = {}

NextReconcile ==
    \/ ReconcileStart
    \/ \E id \in StartIds : ReconcileBoth(id)
    \/ \E id \in StartIds : ReconcileServerOnly(id)
    \/ \E id \in StartIds : ReconcileLocalOnly(id)
    \/ ReconcileDone
    \/ ServerApply
    \/ DeliverAtStartup

SpecReconcile == InitReconcile /\ [][NextReconcile]_vars

(***************************************************************************)
(* The module's folder reducers on small tables.  Folder and note paths    *)
(* are spelled character by character: a, a/c, a2, b, b2 and x.md in them. *)
(***************************************************************************)
FolderPaths ==
    {<<"a">>, <<"a", "/", "c">>, <<"a", "2">>, <<"b">>, <<"b", "2">>}

NotePaths ==
    {f \o <<"/", "x", ".md">> : f \in {<<"a">>, <<"a", "/", "c">>, <<"a", "2">>, <<"b">>}}

\* The old_path and new_path a caller passes; one has a trailing slash.
MoveArgs == {<<"a">>, <<"a", "/">>, <<"b">>, <<"a", "/", "c">>}

TableRow(id, path) ==
    FromLocal(NewNote(id, path, <<"x">>, EmptyObject, 1, 1, 1), 1)

InitFolders ==
    /\ \E fs \in SUBSET FolderPaths, ps \in [{"u1", "u2"} -> NotePaths \cup {<<>>}] :
           /\ ps["u1"] # <<>> => ps["u1"] # ps["u2"]
           /\ db = [note |-> {TableRow(id, ps[id]) :
                                 id \in {i \in {"u1", "u2"} : ps[i] # <<>>}},
                    folder |-> {NewFolder(f) : f \in fs}]
    /\ cache = EmptyDb
    /\ disk = [p \in Paths |-> NoFile]
    /\ dirs = {}
    /\ tracker = EmptyTracker
    /\ calls = <<>> /\ updates = <<>> /\ cbq = <<>> /\ fsEvents = {}
    /\ wpc = "idle" /\ wPath = <<>> /\ wNote = NoNote /\ wRaw = <<>>
    /\ wList = <<>>
    /\ cpc = "idle" /\ cChange = NoChange
    /\ now = 1 /\ inputs = 0 /\ uuids = 0 /\ effects = {}
    /\ rpc = "off" /\ rServer = {} /\ rLocal = {} /\ rTodo = {}

\* A client calls move_folder; the two scans yield their rows in some order.
MoveFolder(old_path, new_path) ==
    /\ Tick
    /\ \E notes \in Orders(notes_to_update(db, normalize(old_path))),
          subs \in Orders(subfolders_to_update(db, normalize(old_path))) :
           db' = DbOf(move_folder(db, old_path, new_path, now', notes, subs))
    /\ effects' = effects \cup {"move_folder"}
    /\ UNCHANGED <<disk, dirs, tracker, cache, calls, updates, cbq, fsEvents,
                   watcherVars, callbackVars, uuids, reconcileVars>>

\* The server commits the reducer's transaction, or rolls it back after a
\* panic.
Reduced(tx) ==
    /\ Tick
    /\ db' = DbOf(tx)
    /\ effects' = effects \cup (IF tx.ok THEN {} ELSE {"rolled_back"})
    /\ UNCHANGED <<disk, dirs, tracker, cache, calls, updates, cbq, fsEvents,
                   watcherVars, callbackVars, uuids, reconcileVars>>

DeleteFolder(path) == Reduced(delete_folder(db, path))

NextFolders ==
    \/ \E old_path, new_path \in MoveArgs : MoveFolder(old_path, new_path)
    \/ \E path \in MoveArgs : DeleteFolder(path)

SpecFolders == InitFolders /\ [][NextFolders]_vars

(***************************************************************************)
(* The tables under the reducer calls of all clients: the daemon (watcher, *)
(* reconciler, startup folder sync: upsert_note, delete_note,              *)
(* upsert_folder, delete_folder with Note::new and Folder::new values) and *)
(* the facade (src/spacenotes-mcp/src/tools.rs).                           *)
(***************************************************************************)
\* tools.rs create_note: the folder path it extracts from path.
facade_folder_path(path) ==
    IF contains(path, <<"/">>)
    THEN SubSeq(path, 1, rfind(path, "/") - 1) \o <<"/">>
    ELSE <<>>

\* spacetime_client.rs create_note: the row the facade asks for.
FacadeNote(id, path, content, ts) ==
    DbNote(id, path, note_name(path), content, facade_folder_path(path),
           count(path, "/"), NoFrontmatter, Len(content), ts, ts, ts)

TableIds == {"u1", "u2"}

ArgNotePaths ==
    {<<"a", "/", "x", ".md">>, <<"b", "/", "x", ".md">>, <<"x", ".md">>}

ArgFolderPaths == {<<"a">>, <<"a", "/">>, <<"b">>}

\* Tables some earlier calls have left: up to two notes, up to two folders.
InitTables ==
    /\ \E fs \in SUBSET {<<"a">>, <<"b">>},
          ps \in [TableIds -> ArgNotePaths \cup {<<>>}] :
           /\ ps["u1"] # <<>> => ps["u1"] # ps["u2"]
           /\ db = [note |-> {TableRow(id, ps[id]) :
                                 id \in {i \in TableIds : ps[i] # <<>>}},
                    folder |-> {NewFolder(f) : f \in fs}]
    /\ cache = EmptyDb
    /\ disk = [p \in Paths |-> NoFile]
    /\ dirs = {}
    /\ tracker = EmptyTracker
    /\ calls = <<>> /\ updates = <<>> /\ cbq = <<>> /\ fsEvents = {}
    /\ wpc = "idle" /\ wPath = <<>> /\ wNote = NoNote /\ wRaw = <<>>
    /\ wList = <<>>
    /\ cpc = "idle" /\ cChange = NoChange
    /\ now = 1 /\ inputs = 0 /\ uuids = 0 /\ effects = {}
    /\ rpc = "off" /\ rServer = {} /\ rLocal = {} /\ rTodo = {}

ArgTexts == {<<"x">>, <<"y">>}

CreateNote(path, content) ==
    Reduced(create_note(db, FacadeNote("u3", path, content, now')))

UpsertNote(id, path, content) ==
    Reduced(upsert_note(db,
        FromLocal(NewNote(id, path, content, EmptyObject, Len(content), now', now'),
                  now')))

DeleteNote(id) == Reduced(delete_note(db, id))

UpdateNoteContent(id, content) ==
    Reduced(update_note_content(db, id, content, NoFrontmatter, Len(content),
                                now', now'))

RenameNote(id, new_path) == Reduced(rename_note(db, id, new_path, now'))

UpdateNotePath(id, new_path) == Reduced(update_note_path(db, id, new_path, now'))

MoveNote(old_path, new_path) == Reduced(move_note(db, old_path, new_path, now'))

AppendToNote(path, content) == Reduced(append_to_note(db, path, content, now'))

PrependToNote(path, content) == Reduced(prepend_to_note(db, path, content, now'))

FindReplaceInNote(path, old_text, new_text, replace_all) ==
    Reduced(find_replace_in_note(db, path, old_text, new_text, replace_all, now'))

CreateFolder(path) ==
    Reduced(create_folder(db, path, last_segment(normalize(path)),
                          count(path, "/")))

UpsertFolder(path) ==
    Reduced(upsert_folder(db, NewFolder(path).path, NewFolder(path).name,
                          NewFolder(path).depth))

NoteReducers ==
    \/ \E path \in ArgNotePaths, content \in ArgTexts : CreateNote(path, content)
    \/ \E id \in TableIds, path \in ArgNotePaths, content \in ArgTexts :
           UpsertNote(id, path, content)
    \/ \E id \in TableIds : DeleteNote(id)
    \/ \E id \in TableIds, content \in ArgTexts : UpdateNoteContent(id, content)
    \/ \E id \in TableIds, path \in ArgNotePaths : RenameNote(id, path)
    \/ \E id \in TableIds, path \in ArgNotePaths : UpdateNotePath(id, path)
    \/ \E old_path, new_path \in ArgNotePaths : MoveNote(old_path, new_path)
    \/ \E path \in ArgNotePaths, content \in ArgTexts : AppendToNote(path, content)
    \/ \E path \in ArgNotePaths, content \in ArgTexts : PrependToNote(path, content)
    \/ \E path \in ArgNotePaths, old_text, new_text \in ArgTexts,
          replace_all \in BOOLEAN :
           FindReplaceInNote(path, old_text, new_text, replace_all)

FolderReducers ==
    \/ \E path \in ArgFolderPaths : CreateFolder(path)
    \/ \E path \in ArgFolderPaths : UpsertFolder(path)
    \/ \E path \in ArgFolderPaths : DeleteFolder(path)
    \/ \E old_path, new_path \in MoveArgs : MoveFolder(old_path, new_path)

NextTables == inputs < MenuInputs /\ (NoteReducers \/ FolderReducers)

SpecTables == InitTables /\ [][NextTables]_vars

(***************************************************************************)
(* find_replace_in_note on one note x.md whose content is any text of up   *)
(* to MaxLen characters x and y; the facade's edit_note passes old_string, *)
(* new_string and replace_all through (tools.rs 378-409).                  *)
(***************************************************************************)
MaxLen == 3

Texts(n) == UNION {[1..k -> {"x", "y"}] : k \in 0..n}

OldTexts == {<<>>, <<"x">>, <<"x", "x">>, <<"x", "y">>}

NewTexts == {<<>>, <<"z">>, <<"x">>, <<"x", "x">>}

InitReplace ==
    /\ \E content \in Texts(MaxLen) :
           db = [note |-> {FromLocal(NewNote("u1", <<"x", ".md">>, content,
                                             EmptyObject, Len(content), 1, 1), 1)},
                 folder |-> {}]
    /\ cache = EmptyDb
    /\ disk = [p \in Paths |-> NoFile]
    /\ dirs = {}
    /\ tracker = EmptyTracker
    /\ calls = <<>> /\ updates = <<>> /\ cbq = <<>> /\ fsEvents = {}
    /\ wpc = "idle" /\ wPath = <<>> /\ wNote = NoNote /\ wRaw = <<>>
    /\ wList = <<>>
    /\ cpc = "idle" /\ cChange = NoChange
    /\ now = 1 /\ inputs = 0 /\ uuids = 0 /\ effects = {}
    /\ rpc = "off" /\ rServer = {} /\ rLocal = {} /\ rTodo = {}

NextReplace ==
    /\ inputs < MenuInputs
    /\ \E path \in {<<"x", ".md">>, <<"a", "/", "x", ".md">>},
          old_text \in OldTexts, new_text \in NewTexts, replace_all \in BOOLEAN :
           FindReplaceInNote(path, old_text, new_text, replace_all)

SpecReplace == InitReplace /\ [][NextReplace]_vars

(***************************************************************************)
(* src/src/writer.rs, statement by statement, with the process free to     *)
(* crash between any two of them and inside std::fs::write.  cpc is the    *)
(* position in write_note_to_disk; cChange.new is the note being written   *)
(* and cChange.old the vault's files as they were when the call began      *)
(* (history).  Notes come from the Note table, whose paths callers of      *)
(* create_note choose: a.md, a.tmp and a without extension, all in F.      *)
(***************************************************************************)
Extensions == {".md", ".tmp"}

\* Path::with_extension: the extension replaced, or added if there is none.
with_extension(path, ext) ==
    IF path # <<>> /\ path[Len(path)] \in Extensions
    THEN SubSeq(path, 1, Len(path) - 1) \o <<ext>>
    ELSE path \o <<ext>>

WriterPaths ==
    {<<"F", "/", "a", ".md">>, <<"F", "/", "a", ".tmp">>, <<"F", "/", "a">>}

WriterIds ==
    [p \in WriterPaths |->
        IF p = <<"F", "/", "a", ".md">> THEN "u1"
        ELSE IF p = <<"F", "/", "a", ".tmp">> THEN "u2" ELSE "u3"]

WriterNote(path, body, t) ==
    NewNote(WriterIds[path], path, body, EmptyObject, Len(body), 1, t)

WriterStages == {"mkdir", "create", "fill", "rename", "mtime"}

\* Some of the notes were written, whole, by earlier calls.
InitWriter ==
    /\ \E S \in SUBSET WriterPaths :
           disk = [p \in WriterPaths |->
                      IF p \in S
                      THEN File(writer_text(WriterNote(p, <<"x">>, 1)), 1, 1)
                      ELSE NoFile]
    /\ dirs = {}
    /\ cache = EmptyDb /\ db = EmptyDb
    /\ tracker = EmptyTracker
    /\ calls = <<>> /\ updates = <<>> /\ cbq = <<>> /\ fsEvents = {}
    /\ wpc = "idle" /\ wPath = <<>> /\ wNote = NoNote /\ wRaw = <<>>
    /\ wList = <<>>
    /\ cpc = "idle" /\ cChange = NoChange
    /\ now = 1 /\ inputs = 0 /\ uuids = 0 /\ effects = {}
    /\ rpc = "off" /\ rServer = {} /\ rLocal = {} /\ rTodo = {}

\* A callback calls write_note_to_disk; the path is inside the vault.
WriterCall(path, body) ==
    /\ cpc = "idle"
    /\ Tick
    /\ cChange' = Change("file", "write", disk, WriterNote(path, body, now'))
    /\ cpc' = "mkdir"
    /\ UNCHANGED <<disk, dirs, tracker, db, cache, calls, updates, cbq,
                   fsEvents, watcherVars, uuids, effects, reconcileVars>>

WriterCreateDirAll ==
    /\ cpc = "mkdir"
    /\ dirs' = dirs \cup {parent(cChange.new.path)}
    /\ cpc' = "create"
    /\ UNCHANGED <<disk, tracker, db, cache, calls, updates, cbq, fsEvents,
                   watcherVars, cChange, now, inputs, uuids, effects,
                   reconcileVars>>

\* std::fs::write opens tmp_path, creating or truncating it.
WriterCreateTmp ==
    /\ cpc = "create"
    /\ disk' = written(disk, with_extension(cChange.new.path, ".tmp"), <<>>, now)
    /\ cpc' = "fill"
    /\ UNCHANGED <<dirs, tracker, db, cache, calls, updates, cbq, fsEvents,
                   watcherVars, cChange, now, inputs, uuids, effects,
                   reconcileVars>>

\* std::fs::write writes all of the content.
WriterFillTmp ==
    /\ cpc = "fill"
    /\ disk' = written(disk, with_extension(cChange.new.path, ".tmp"),
                       writer_text(cChange.new), now)
    /\ cpc' = "rename"
    /\ UNCHANGED <<dirs, tracker, db, cache, calls, updates, cbq, fsEvents,
                   watcherVars, cChange, now, inputs, uuids, effects,
                   reconcileVars>>

\* std::fs::rename(tmp_path, file_path); onto itself it does nothing.
WriterRename ==
    /\ cpc = "rename"
    /\ LET target == cChange.new.path
           tmp    == with_extension(target, ".tmp")
       IN  disk' = IF tmp = target THEN disk
                   ELSE [disk EXCEPT ![target] = disk[tmp], ![tmp] = NoFile]
    /\ cpc' = "mtime"
    /\ UNCHANGED <<dirs, tracker, db, cache, calls, updates, cbq, fsEvents,
                   watcherVars, cChange, now, inputs, uuids, effects,
                   reconcileVars>>

\* filetime::set_file_mtime, then Ok(()).
WriterSetMtime ==
    /\ cpc = "mtime"
    /\ disk' = [disk EXCEPT ![cChange.new.path].mtime = cChange.new.modified_time]
    /\ cpc' = "idle"
    /\ effects' = effects \cup {"written"}
    /\ UNCHANGED <<dirs, tracker, db, cache, calls, updates, cbq, fsEvents,
                   watcherVars, cChange, now, inputs, uuids, reconcileVars>>

\* The process dies between two statements.
WriterCrash ==
    /\ cpc \in WriterStages
    /\ cpc' = "crashed"
    /\ effects' = effects \cup {"crashed_at_" \o cpc}
    /\ UNCHANGED <<disk, dirs, tracker, db, cache, calls, updates, cbq,
                   fsEvents, watcherVars, cChange, now, inputs, uuids,
                   reconcileVars>>

\* The process dies inside std::fs::write: part of the content is written.
WriterCrashInFill ==
    /\ cpc = "fill"
    /\ \E k \in 1..(Len(writer_text(cChange.new)) - 1) :
           disk' = written(disk, with_extension(cChange.new.path, ".tmp"),
                           SubSeq(writer_text(cChange.new), 1, k), now)
    /\ cpc' = "crashed"
    /\ effects' = effects \cup {"crashed_in_fill"}
    /\ UNCHANGED <<dirs, tracker, db, cache, calls, updates, cbq, fsEvents,
                   watcherVars, cChange, now, inputs, uuids, reconcileVars>>

\* The daemon is started again.
WriterRestart ==
    /\ cpc = "crashed"
    /\ inputs < MenuInputs
    /\ cpc' = "idle"
    /\ UNCHANGED <<disk, dirs, tracker, db, cache, calls, updates, cbq,
                   fsEvents, watcherVars, cChange, now, inputs, uuids,
                   effects, reconcileVars>>

NextWriter ==
    \/ inputs < MenuInputs /\ \E path \in WriterPaths, body \in {<<"x">>, <<"y">>} :
                                  WriterCall(path, body)
    \/ WriterCreateDirAll
    \/ WriterCreateTmp
    \/ WriterFillTmp
    \/ WriterRename
    \/ WriterSetMtime
    \/ WriterCrash
    \/ WriterCrashInFill
    \/ WriterRestart

SpecWriter == InitWriter /\ [][NextWriter]_vars

(***************************************************************************)
(* src/src/writer.rs 6-17: the traversal guard.  A path is spelled token   *)
(* by token; std::path::Path compares and joins by components and does not *)
(* resolve "..".  The vault is /v.  Files and directories are keyed by the *)
(* path as the writer spells it, relative to the vault unless absolute.    *)
(***************************************************************************)
VaultRoot == <<"/", "v">>

\* Path::has_root
has_root(path) == path # <<>> /\ path[1] = "/"

\* Path::components without the root: the names between the separators.
RECURSIVE components(_)
components(path) ==
    IF path = <<>> THEN <<>>
    ELSE IF Head(path) = "/" THEN components(Tail(path))
    ELSE LET i == find(path, <<"/">>)
         IN  IF i = 0 THEN <<path>>
             ELSE <<SubSeq(path, 1, i - 1)>>
                  \o components(SubSeq(path, i + 1, Len(path)))

\* Path::join: an absolute path replaces the base.
path_join(base, path) ==
    IF has_root(path) THEN path ELSE base \o <<"/">> \o path

\* Path::starts_with: base's components are a prefix of path's.
path_starts_with(path, base) ==
    /\ has_root(path) = has_root(base)
    /\ Len(components(base)) <= Len(components(path))
    /\ SubSeq(components(path), 1, Len(components(base))) = components(base)

\* The paths notes carry: inside the vault, absolute, and with ".."
\* components that lead out of the vault or stay in it.
GuardPaths ==
    {<<"F", "/", "a", ".md">>,
     <<"/", "etc", "/", "a", ".md">>,
     <<"..", "/", "x", "/", "a", ".md">>,
     <<"F", "/", "..", "/", "..", "/", "x", "/", "a", ".md">>,
     <<"F", "/", "..", "/", "a", ".md">>}

GuardNote(path, body, t) ==
    NewNote("u1", path, body, EmptyObject, Len(body), 1, t)

InitGuard ==
    /\ disk = [p \in GuardPaths \cup {with_extension(q, ".tmp") : q \in GuardPaths}
                   |-> NoFile]
    /\ dirs = {}
    /\ cache = EmptyDb /\ db = EmptyDb
    /\ tracker = EmptyTracker
    /\ calls = <<>> /\ updates = <<>> /\ cbq = <<>> /\ fsEvents = {}
    /\ wpc = "idle" /\ wPath = <<>> /\ wNote = NoNote /\ wRaw = <<>>
    /\ wList = <<>>
    /\ cpc = "idle" /\ cChange = NoChange
    /\ now = 1 /\ inputs = 0 /\ uuids = 0 /\ effects = {}
    /\ rpc = "off" /\ rServer = {} /\ rLocal = {} /\ rTodo = {}

\* write_note_to_disk up to the security check: it bails or goes on.
WriterGuard(path, body) ==
    /\ cpc = "idle"
    /\ Tick
    /\ IF path_starts_with(path_join(VaultRoot, path), VaultRoot)
       THEN /\ cpc' = "mkdir"
            /\ effects' = effects
            /\ cChange' = Change("file", "write", disk, GuardNote(path, body, now'))
       ELSE /\ effects' = effects \cup {"security_violation"}
            /\ UNCHANGED <<cpc, cChange>>
    /\ UNCHANGED <<disk, dirs, tracker, db, cache, calls, updates, cbq,
                   fsEvents, watcherVars, uuids, reconcileVars>>

NextGuard ==
    \/ inputs < MenuInputs /\ \E path \in GuardPaths, body \in {<<"x">>, <<"y">>} :
                                  WriterGuard(path, body)
    \/ WriterCreateDirAll
    \/ WriterCreateTmp
    \/ WriterFillTmp
    \/ WriterRename
    \/ WriterSetMtime

SpecGuard == InitGuard /\ [][NextGuard]_vars

(***************************************************************************)
(* The same daemon when a side effect fails: write_note_to_disk returns    *)
(* Err in a note callback (main.rs 134-135, 165-166), or the reducer call  *)
(* of client.upsert_note returns Err, which client.rs 196 discards.        *)
(***************************************************************************)
\* write_note_to_disk returns Err: the handler logs it and returns.
OnNoteWriteFails ==
    /\ cpc = "write"
    /\ effects' = effects \cup {"write_failed"}
    /\ cpc' = "idle"
    /\ cChange' = NoChange
    /\ UNCHANGED <<disk, dirs, tracker, db, cache, calls, updates, cbq,
                   fsEvents, watcherVars, now, inputs, uuids, reconcileVars>>

\* client.upsert_note(&note) when the call cannot be sent: nothing reaches
\* the server and the watcher goes on to tracker.update.
WatcherUpsertFails ==
    /\ wpc = "upsert"
    /\ effects' = effects \cup {"upload_failed"}
    /\ wpc' = "update"
    /\ UNCHANGED <<disk, dirs, tracker, db, cache, calls, updates, cbq,
                   fsEvents, wPath, wNote, wRaw, wList, callbackVars, now,
                   inputs, uuids, reconcileVars>>

NextFail ==
    \/ inputs < MenuInputs /\ (ExternalEdit \/ RemoteCreate("u3", PB, <<"z">>))
    \/ Server
    \/ NoteCallbacks
    \/ OnNoteWriteFails
    \/ WatcherEdit
    \/ WatcherUpsertFails

SpecFail == Init /\ [][NextFail]_vars

(***************************************************************************)
(* src/src/tracker.rs on its own: any map over the ids, and calls of the   *)
(* four operations; each runs under the mutex, so each is one step.  The   *)
(* value a call returned is kept in effects.                               *)
(***************************************************************************)
TrackerIds == {"u1", "u2"}

TrackerTexts == {<<"x">>, <<"y">>}

Returned(op, ret) == op \o (IF ret THEN "_true" ELSE "_false")

InitTracker ==
    /\ tracker \in [Ids -> {NoHash} \cup {hash(c) : c \in TrackerTexts}]
    /\ \A i \in Ids \ TrackerIds : tracker[i] = NoHash
    /\ disk = [p \in Paths |-> NoFile]
    /\ dirs = {}
    /\ cache = EmptyDb /\ db = EmptyDb
    /\ calls = <<>> /\ updates = <<>> /\ cbq = <<>> /\ fsEvents = {}
    /\ wpc = "idle" /\ wPath = <<>> /\ wNote = NoNote /\ wRaw = <<>>
    /\ wList = <<>>
    /\ cpc = "idle" /\ cChange = NoChange
    /\ now = 1 /\ inputs = 0 /\ uuids = 0 /\ effects = {}
    /\ rpc = "off" /\ rServer = {} /\ rLocal = {} /\ rTodo = {}

TrackerStep(map, said) ==
    /\ Tick
    /\ tracker' = map
    /\ effects' = effects \cup said
    /\ UNCHANGED <<disk, dirs, db, cache, calls, updates, cbq, fsEvents,
                   watcherVars, callbackVars, uuids, reconcileVars>>

TrackerUpdate(id, content) ==
    TrackerStep(tracker_update(tracker, id, content), {"update"})

TrackerHasChanged(id, content) ==
    TrackerStep(tracker, {Returned("has_changed", has_changed(tracker, id, content))})

TrackerIsModified(id, content) ==
    TrackerStep(is_modified(tracker, id, content).map,
                {Returned("is_modified", is_modified(tracker, id, content).ret)})

TrackerRemove(id) == TrackerStep(tracker_remove(tracker, id), {"remove"})

NextTracker ==
    /\ inputs < MaxInputs
    /\ \E id \in TrackerIds, content \in TrackerTexts :
           \/ TrackerUpdate(id, content)
           \/ TrackerHasChanged(id, content)
           \/ TrackerIsModified(id, content)
           \/ TrackerRemove(id)

SpecTracker == InitTracker /\ [][NextTracker]_vars

(***************************************************************************)
(* src/spacenotes-mcp: the facade.  A request is [id, method, params];     *)
(* params is JSON null (absent), an object without a name, or an object    *)
(* with a name and arguments.  An argument is a text spelled token by      *)
(* token, JSON null when absent, or a number; "paths" is a list of texts.  *)
(* The reducer a tool calls runs on the server's tables, which the facade  *)
(* also reads; the call returns Ok once it is sent.                        *)
(***************************************************************************)
JsonNull == <<"#null">>

JsonNumber == <<"#number">>

\* serde_json::from_value::<String>
is_string(v) == v \notin {JsonNull, JsonNumber}

\* params.arguments["key"]
argument(p, key) ==
    IF key \in DOMAIN p.arguments THEN p.arguments[key] ELSE JsonNull

\* Result<Value, String> of execute_tool, with the transaction of the
\* reducer it called.
ToolOk(tx) == [ok |-> TRUE, tx |-> tx]

ToolErr(d) == [ok |-> FALSE, tx |-> Begin(d)]

\* move_notes_to_folder: the destination with a trailing slash.
destination(folder) ==
    IF ends_with(folder, <<"/">>) THEN folder ELSE folder \o <<"/">>

\* move_notes_to_folder: one move_note call for each path, in order.
RECURSIVE move_each(_, _, _, _)
move_each(d, paths, dest, ts) ==
    IF paths = <<>> THEN Begin(d)
    ELSE LET tx == move_note(d, Head(paths), dest \o last_segment(Head(paths)), ts)
         IN  IF Tail(paths) = <<>> THEN tx
             ELSE move_each(DbOf(tx), Tail(paths), dest, ts)

\* RegexBuilder::build on the patterns in use: "(" alone does not compile,
\* the others are literals.
regex_builds(pattern) == pattern # <<"(">>

execute_tool(d, p, ts, notes, subs) ==
    IF p.name = "create_note"
    THEN LET path == argument(p, "path")
             content == argument(p, "content")
         IN  IF ~is_string(path) \/ ~is_string(content) THEN ToolErr(d)
             ELSE ToolOk(create_note(d, FacadeNote("u3", path, content, ts)))
    ELSE IF p.name = "move_note"
    THEN LET old_path == argument(p, "old_path")
             new_path == argument(p, "new_path")
         IN  IF ~is_string(old_path) \/ ~is_string(new_path) THEN ToolErr(d)
             ELSE ToolOk(move_note(d, old_path, new_path, ts))
    ELSE IF p.name = "move_folder"
    THEN LET old_path == argument(p, "old_path")
             new_path == argument(p, "new_path")
         IN  IF ~is_string(old_path) \/ ~is_string(new_path) THEN ToolErr(d)
             ELSE ToolOk(move_folder(d, old_path, new_path, ts, notes, subs))
    ELSE IF p.name = "append_to_note"
    THEN LET path == argument(p, "path")
             content == argument(p, "content")
         IN  IF ~is_string(path) \/ ~is_string(content) THEN ToolErr(d)
             ELSE ToolOk(append_to_note(d, path, content, ts))
    ELSE IF p.name = "edit_note"
    THEN LET path == argument(p, "path")
             old_string == argument(p, "old_string")
             new_string == argument(p, "new_string")
         IN  IF ~is_string(path) \/ ~is_string(old_string) \/ ~is_string(new_string)
             THEN ToolErr(d)
             ELSE IF note_by_path(d, path) = {} THEN ToolErr(d)
             ELSE IF ~contains((CHOOSE r \in note_by_path(d, path) : TRUE).content,
                               old_string)
                  THEN ToolErr(d)
             ELSE ToolOk(find_replace_in_note(d, path, old_string, new_string,
                                              FALSE, ts))
    ELSE IF p.name = "regex_replace"
    THEN LET path == argument(p, "path")
             pattern == argument(p, "pattern")
             replacement == argument(p, "replacement")
         IN  IF ~is_string(path) \/ ~is_string(pattern) \/ ~is_string(replacement)
             THEN ToolErr(d)
             ELSE IF note_by_path(d, path) = {} THEN ToolErr(d)
             ELSE IF ~regex_builds(pattern) THEN ToolErr(d)
             ELSE LET e == CHOOSE r \in note_by_path(d, path) : TRUE
                      new_content == replace(e.content, pattern, replacement)
                  IN  IF new_content = e.content THEN ToolOk(Begin(d))
                      ELSE ToolOk(update_note_content(d, e.id, new_content,
                                      NoFrontmatter, Len(new_content), ts, ts))
    ELSE IF p.name = "move_notes_to_folder"
    THEN IF "paths" \notin DOMAIN p.arguments
            \/ ~is_string(argument(p, "destination_folder"))
         THEN ToolErr(d)
         ELSE ToolOk(move_each(d, p.arguments["paths"],
                               destination(argument(p, "destination_folder")), ts))
    ELSE ToolErr(d)

\* The JSON-RPC value handle_request returns; none when the handler
\* panicked and the connection got no JSON-RPC value at all.
Response(id, kind, code) == [id |-> id, kind |-> kind, code |-> code]

NoResponse == Response("", "none", 0)

handle_request(d, request, ts, notes, subs) ==
    IF request.method \in {"initialize", "tools/list"}
    THEN [response |-> Response(request.id, "result", 0), tx |-> Begin(d)]
    ELSE IF request.method = "tools/call"
    THEN IF request.params.kind # "object"
         THEN [response |-> NoResponse, tx |-> Begin(d)]
         ELSE LET r == execute_tool(d, request.params, ts, notes, subs)
              IN  [response |-> IF r.ok THEN Response(request.id, "result", 0)
                                ELSE Response(request.id, "error", -32603),
                   tx |-> r.tx]
    ELSE [response |-> Response(request.id, "error", -32601), tx |-> Begin(d)]

ToolCall(name, arguments) ==
    [kind |-> "object", name |-> name, arguments |-> arguments]

NoParams == [kind |-> "null", name |-> "", arguments |-> <<>>]

NoName == [kind |-> "no_name", name |-> "", arguments |-> <<>>]

AX == <<"a", "/", "x", ".md">>

BX == <<"b", "/", "x", ".md">>

\* The tool calls clients send.
ToolCalls ==
    {ToolCall("create_note", [path |-> p, content |-> <<"x">>]) : p \in {AX, BX}}
    \cup {ToolCall("move_note", [old_path |-> AX, new_path |-> BX]),
          ToolCall("move_note", [old_path |-> AX]),
          ToolCall("move_folder", [old_path |-> <<"a">>, new_path |-> <<"b">>]),
          ToolCall("append_to_note", [path |-> AX, content |-> <<"y">>]),
          ToolCall("append_to_note", [path |-> AX, content |-> JsonNumber]),
          ToolCall("edit_note", [path |-> AX, old_string |-> <<"x">>,
                                 new_string |-> <<"y">>]),
          ToolCall("edit_note", [path |-> AX, old_string |-> <<"z">>,
                                 new_string |-> <<"y">>]),
          ToolCall("regex_replace", [path |-> AX, pattern |-> <<"x">>,
                                     replacement |-> <<"y">>]),
          ToolCall("regex_replace", [path |-> AX, pattern |-> <<"(">>,
                                     replacement |-> <<"y">>]),
          ToolCall("move_notes_to_folder",
                   [paths |-> <<AX, <<"x", ".md">>>>,
                    destination_folder |-> <<"b">>]),
          ToolCall("no_such_tool", <<>>)}

Requests ==
    [id : {"1", "null"}, method : {"initialize", "tools/list", "ping"},
     params : {NoParams}]
    \cup [id : {"1", "null"}, method : {"tools/call"},
          params : ToolCalls \cup {NoParams, NoName}]

\* The facade answers one request; the reducer it called has run.
Handle(request) ==
    /\ Tick
    /\ \E notes \in Orders(notes_to_update(db, <<"a">>)),
          subs \in Orders(subfolders_to_update(db, <<"a">>)) :
           LET h == handle_request(db, request, now', notes, subs)
           IN  /\ db' = DbOf(h.tx)
               /\ cChange' = Change("rpc", request.method, request, h.response)
               /\ effects' = effects \cup (IF h.tx.ok THEN {} ELSE {"rolled_back"})
    /\ UNCHANGED <<disk, dirs, tracker, cache, calls, updates, cbq, fsEvents,
                   watcherVars, cpc, uuids, reconcileVars>>

NextFacade == inputs < MenuInputs /\ \E request \in Requests : Handle(request)

SpecFacade == InitTables /\ [][NextFacade]_vars

(***************************************************************************)
(* src/src/main.rs 56-97 and 242-244 with client.rs 59-77: the order of    *)
(* startup.  rpc is main's position, now the time since wait_for_sync      *)
(* began, counted in sleeps of its loop; TimeoutTicks stands for the 30    *)
(* seconds.  The SDK's thread runs on_applied at any moment; effects holds *)
(* "synced" once it has set the flag.                                      *)
(***************************************************************************)
TimeoutTicks == 4

\* start.elapsed() > timeout
timed_out_at_once(elapsed) == TRUE

timed_out(elapsed) == elapsed > TimeoutTicks

InitStartup ==
    /\ rpc = "wait_check"
    /\ now = 0 /\ inputs = 0 /\ uuids = 0 /\ effects = {}
    /\ disk = [p \in Paths |-> NoFile]
    /\ dirs = {}
    /\ cache = EmptyDb /\ db = EmptyDb
    /\ tracker = EmptyTracker
    /\ calls = <<>> /\ updates = <<>> /\ cbq = <<>> /\ fsEvents = {}
    /\ wpc = "idle" /\ wPath = <<>> /\ wNote = NoNote /\ wRaw = <<>>
    /\ wList = <<>>
    /\ cpc = "idle" /\ cChange = NoChange
    /\ rServer = {} /\ rLocal = {} /\ rTodo = {}

\* main moves from position from to position to, leaving said in effects.
MainStep(from, to, said) ==
    /\ rpc = from
    /\ rpc' = to
    /\ effects' = effects \cup said
    /\ UNCHANGED <<disk, dirs, tracker, db, cache, calls, updates, cbq,
                   fsEvents, watcherVars, callbackVars, now, inputs, uuids,
                   rServer, rLocal, rTodo>>

\* The subscription is applied: on_applied sets the flag.
OnApplied ==
    /\ "synced" \notin effects
    /\ rpc \in {"wait_check", "wait_elapsed", "wait_sleep"}
    /\ effects' = effects \cup {"synced"}
                  \cup (IF timed_out(now) THEN {"applied_after_timeout"} ELSE {})
    /\ UNCHANGED <<disk, dirs, tracker, db, cache, calls, updates, cbq,
                   fsEvents, watcherVars, callbackVars, now, inputs, uuids,
                   reconcileVars>>

\* wait_for_sync: the flag is read under its lock.
WaitCheck ==
    IF "synced" \in effects
    THEN MainStep("wait_check", "reconcile", {"wait_ok"})
    ELSE MainStep("wait_check", "wait_elapsed", {})

\* wait_for_sync: the timeout is tested; main returns the error.
WaitElapsed ==
    IF timed_out(now)
    THEN MainStep("wait_elapsed", "exited", {"wait_timeout"})
    ELSE MainStep("wait_elapsed", "wait_sleep", {})

\* wait_for_sync: std::thread::sleep returns after its period or later.
WaitSleep ==
    /\ rpc = "wait_sleep"
    /\ rpc' = "wait_check"
    /\ \E late \in {0, 1} : now' = now + 1 + late
    /\ UNCHANGED <<disk, dirs, tracker, db, cache, calls, updates, cbq,
                   fsEvents, watcherVars, callbackVars, inputs, uuids, effects,
                   rServer, rLocal, rTodo>>

\* reconcile_on_startup(..)?
StartupReconcile ==
    \/ MainStep("reconcile", "folders", {"reconciled"})
    \/ MainStep("reconcile", "exited", {"reconcile_failed"})

\* scan_folders(..)?, the server's folders created, sync_folders.
StartupFolders ==
    \/ MainStep("folders", "register", {"folders_reconciled"})
    \/ MainStep("folders", "exited", {"scan_failed"})

\* The six callbacks are registered.
StartupRegister == MainStep("register", "watcher", {"callbacks_registered"})

\* start_watcher(..).await
StartupWatcher == MainStep("watcher", "running", {"watcher_started"})

NextStartup ==
    \/ OnApplied
    \/ WaitCheck
    \/ WaitElapsed
    \/ WaitSleep
    \/ StartupReconcile
    \/ StartupFolders
    \/ StartupRegister
    \/ StartupWatcher

SpecStartup == InitStartup /\ [][NextStartup]_vars

(***************************************************************************)
(* src/src/frontmatter.rs 45-108: ids injected into texts of every shape   *)
(* (no front-matter, a well-formed block, a block of malformed YAML, an    *)
(* opening delimiter without a closing one) and extracted again.  wRaw is  *)
(* the text, wList the injections so far as <<id, id extracted>>.          *)
(***************************************************************************)
MaxContent == 4

ContentToks == {"F", "N", "k1", "t", "q", "x"}

Contents == UNION {[1..k -> ContentToks] : k \in 0..MaxContent}

InitCodec ==
    /\ wRaw \in Contents
    /\ wList = <<>>
    /\ now = 0 /\ inputs = 0 /\ uuids = 0 /\ effects = {}
    /\ disk = [p \in Paths |-> NoFile]
    /\ dirs = {}
    /\ cache = EmptyDb /\ db = EmptyDb
    /\ tracker = EmptyTracker
    /\ calls = <<>> /\ updates = <<>> /\ cbq = <<>> /\ fsEvents = {}
    /\ wpc = "idle" /\ wPath = <<>> /\ wNote = NoNote
    /\ cpc = "idle" /\ cChange = NoChange
    /\ rpc = "off" /\ rServer = {} /\ rLocal = {} /\ rTodo = {}

\* inject_spacetime_id(content, id), then extract_spacetime_id of the result.
CodecInject(id) ==
    /\ inputs < MenuInputs
    /\ Tick
    /\ wRaw' = inject_spacetime_id(wRaw, id)
    /\ wList' = Append(wList, <<id, extract_spacetime_id(wRaw')>>)
    /\ UNCHANGED <<disk, dirs, tracker, db, cache, calls, updates, cbq,
                   fsEvents, wpc, wPath, wNote, callbackVars, uuids, effects,
                   reconcileVars>>

NextCodec == \E id \in {"u1", "u2"} : CodecInject(id)

SpecCodec == InitCodec /\ [][NextCodec]_vars

(***************************************************************************)
(* src/src/sanitize.rs 13-36: sanitize_path over paths of every kind of    *)
(* character, applied again to its own output.  wPath is the path, wList   *)
(* the arguments of the calls so far.                                      *)
(***************************************************************************)
MaxPathLen == 3

\* "EMOJI" and "%" stand for the characters that are neither allowed nor
\* typographic.
SanitizeChars ==
    {"a", "2", "/", ".", " ", "_", "QUOTE", "ELLIPSIS", "LDQUO", "RDQUO",
     "LSQUO", "RSQUO", "EMDASH", "ENDASH", "EMOJI", "%"}

InitSanitize ==
    /\ wPath \in UNION {[1..k -> SanitizeChars] : k \in 0..MaxPathLen}
    /\ wList = <<>>
    /\ now = 0 /\ inputs = 0 /\ uuids = 0 /\ effects = {}
    /\ disk = [p \in Paths |-> NoFile]
    /\ dirs = {}
    /\ cache = EmptyDb /\ db = EmptyDb
    /\ tracker = EmptyTracker
    /\ calls = <<>> /\ updates = <<>> /\ cbq = <<>> /\ fsEvents = {}
    /\ wpc = "idle" /\ wNote = NoNote /\ wRaw = <<>>
    /\ cpc = "idle" /\ cChange = NoChange
    /\ rpc = "off" /\ rServer = {} /\ rLocal = {} /\ rTodo = {}

\* let path = sanitize_path(path)
Sanitize ==
    /\ inputs < MenuInputs
    /\ Tick
    /\ wPath' = sanitize_path(wPath)
    /\ wList' = Append(wList, wPath)
    /\ UNCHANGED <<disk, dirs, tracker, db, cache, calls, updates, cbq,
                   fsEvents, wpc, wNote, wRaw, callbackVars, uuids, effects,
                   reconcileVars>>

NextSanitize == Sanitize

SpecSanitize == InitSanitize /\ [][NextSanitize]_vars

(***************************************************************************)
(* The same daemon while the note "u1" is deleted, by the user or by       *)
(* another client, and uploaded again with the content it had.             *)
(***************************************************************************)
ExternalDelete ==
    \/ UserDelete(PA)
    \/ RemoteDelete("u1")
    \/ RemoteCreate("u1", PA, <<"x">>)

NextDelete ==
    \/ ExternalDelete
    \/ Server
    \/ NoteCallbacks
    \/ OnNoteDeleted
    \/ OnNoteDeletedRemove
    \/ \E p \in Paths : WatcherFileGone(p)
    \/ WatcherRemove
    \/ WatcherEdit

SpecDelete == Init /\ [][NextDelete]_vars

(***************************************************************************)
(* The same daemon while another client moves the note "u1" between        *)
(* F/a.md and F/b.md and saves it again unchanged; the user does nothing.  *)
(***************************************************************************)
\* Another client calls move_note.
RemoteMove(id, new_path) ==
    /\ Tick
    /\ \E r \in note_by_id(db, id) :
           /\ r.path # new_path
           /\ Broadcast(move_note(db, r.path, new_path, now'))
    /\ UNCHANGED <<disk, dirs, tracker, cache, calls, cbq, fsEvents,
                   watcherVars, callbackVars, uuids, effects, reconcileVars>>

\* Another client calls update_note_content with the content the note has.
RemoteTouch(id) ==
    /\ Tick
    /\ \E r \in note_by_id(db, id) :
           Broadcast(update_note_content(db, id, r.content, r.frontmatter,
                                         r.size, now', now'))
    /\ UNCHANGED <<disk, dirs, tracker, cache, calls, cbq, fsEvents,
                   watcherVars, callbackVars, uuids, effects, reconcileVars>>

ExternalMove ==
    \/ RemoteMove("u1", PB)
    \/ RemoteMove("u1", PA)
    \/ RemoteTouch("u1")

NextRemoteMove ==
    \/ ExternalMove
    \/ Server
    \/ EditCallbacks
    \/ OnNoteUpdatedRemoveOld
    \/ OnNoteDeleted
    \/ OnNoteDeletedRemove
    \/ WatcherEdit
    \/ \E p \in Paths : WatcherFileGone(p)
    \/ WatcherRemove

SpecRemoteMove == Init /\ [][NextRemoteMove]_vars

(***************************************************************************)
(* The same daemon while the user deletes the file of note "u1" and saves  *)
(* a file of that name again.                                              *)
(***************************************************************************)
ExternalLocalDelete ==
    \/ UserDelete(PA)
    \/ UserWrite(PA, <<"y">>)

NextLocalDelete ==
    \/ inputs < MenuInputs /\ ExternalLocalDelete
    \/ Server
    \/ OnNoteInserted \/ OnNoteTrackerUpdate \/ OnNoteWrite
    \/ OnNoteDeleted
    \/ OnNoteDeletedRemove
    \/ WatcherFile
    \/ \E p \in Paths : WatcherFileGone(p)
    \/ WatcherRemove

SpecLocalDelete == Init /\ [][NextLocalDelete]_vars

(***************************************************************************)
(* The same daemon while the user renames the folder F to G and another    *)
(* client uploads a note of its own at G/a.md.                             *)
(***************************************************************************)
ExternalRecover ==
    \/ UserRenameFolder(DirF, DirG)
    \/ RemoteCreate("u3", <<"G", "/", "a", ".md">>, <<"z">>)

NextRecover ==
    \/ inputs < MenuInputs /\ ExternalRecover
    \/ Server
    \/ NoteCallbacks
    \/ OnNoteUpdatedRemoveOld
    \/ OnNoteDeleted
    \/ OnFolderInserted
    \/ OnFolderDeleted
    \/ \E p \in Paths : WatcherReadNote(p)
    \/ WatcherEchoCheck
    \/ \E p \in Dirs : WatcherDirExists(p)
    \/ \E p \in Dirs : WatcherDirGone(p)
    \/ WatcherRecover
    \/ WatcherRecoverUpdate
    \/ WatcherRecoverRemove

SpecRecover == Init /\ [][NextRecover]_vars

(***************************************************************************)
(* The units of created_time and modified_time.  Here now is the wall      *)
(* clock in seconds since the epoch; the daemon reads a file's times with  *)
(* as_millis (scanner.rs 37-45), the append, prepend and find-replace      *)
(* reducers divide the microseconds of ctx.timestamp by 1000               *)
(* (note_reducers.rs 265), and the facade's client takes as_secs           *)
(* (spacetime_client.rs 162-165, 187-190).                                 *)
(***************************************************************************)
Epoch == 2

as_millis(seconds) == seconds * 1000

as_secs(seconds) == seconds

to_micros_since_unix_epoch(seconds) == seconds * 1000000

ClockFile == File(FreshBlock("u1") \o <<"x">>, as_millis(Epoch), as_millis(Epoch))

InitClock ==
    /\ now = Epoch
    /\ disk = [p \in Paths |-> IF p = PA THEN ClockFile ELSE NoFile]
    /\ dirs = {DirF}
    /\ db = [note |-> {FromLocal(read_note_at(ClockFile, PA), Epoch)},
             folder |-> {NewFolder(DirF)}]
    /\ cache = EmptyDb
    /\ tracker = EmptyTracker
    /\ calls = <<>> /\ updates = <<>> /\ cbq = <<>> /\ fsEvents = {}
    /\ wpc = "idle" /\ wPath = <<>> /\ wNote = NoNote /\ wRaw = <<>>
    /\ wList = <<>>
    /\ cpc = "idle" /\ cChange = NoChange
    /\ inputs = 0 /\ uuids = 0 /\ effects = {}
    /\ rpc = "off" /\ rServer = {} /\ rLocal = {} /\ rTodo = {}

\* A step of the clock that changes the files and the tables; cpc names the
\* last step.
ClockStep(files, tx, said) ==
    /\ Tick
    /\ disk' = files
    /\ db' = DbOf(tx)
    /\ effects' = effects \cup {said}
    /\ cpc' = said
    /\ UNCHANGED <<dirs, tracker, cache, calls, updates, cbq, fsEvents,
                   watcherVars, cChange, uuids, reconcileVars>>

\* The user saves the file; its mtime is read back in milliseconds.
ClockLocalEdit(body) ==
    ClockStep(written(disk, PA, FreshBlock("u1") \o body, as_millis(now')),
              Begin(db), "local_edit")

\* The daemon uploads the file as read_note_at reads it.
ClockUpload ==
    /\ disk[PA].exists
    /\ ClockStep(disk, upsert_note(db, FromLocal(read_note_at(disk[PA], PA), now')),
                 "upload")

\* The facade's create_note.
ClockFacadeCreate(content) ==
    ClockStep(disk, create_note(db, FacadeNote("u3", PB, content, as_secs(now'))),
              "facade_create")

\* The facade's regex_replace and edit_note, through update_note_content.
ClockFacadeEdit(content) ==
    ClockStep(disk,
              update_note_content(db, "u1", content, NoFrontmatter,
                                  Len(content), as_secs(now'), now'),
              "facade_edit")

\* The append_to_note reducer.
ClockAppend(content) ==
    ClockStep(disk,
              append_to_note(db, PA, content,
                             to_micros_since_unix_epoch(now') \div 1000),
              "append")

NextClock ==
    \/ \E body \in {<<"y">>, <<"z">>} : ClockLocalEdit(body)
    \/ ClockUpload
    \/ \E content \in ArgTexts : ClockFacadeCreate(content)
    \/ \E content \in ArgTexts : ClockFacadeEdit(content)
    \/ \E content \in ArgTexts : ClockAppend(content)

SpecClock == InitClock /\ [][NextClock]_vars

(***************************************************************************)
(* The same daemon while the user edits the front-matter of the note's     *)
(* file (keys beside the id are added or removed, the body is kept) and    *)
(* its body.                                                               *)
(***************************************************************************)
\* The user saves the file with the keys extra beside its id.
UserEditFrontmatter(path, extra) ==
    /\ Tick
    /\ disk[path].exists
    /\ extract_spacetime_id(disk[path].text) # ""
    /\ LET id   == extract_spacetime_id(disk[path].text)
           body == parse_frontmatter(disk[path].text)[1]
           text == <<"F", "N">> \o EmitKeys({KeyOf(id)} \cup extra, KeyOrder)
                       \o <<"N", "F", "N", "N">> \o body
       IN  /\ text # disk[path].text
           /\ disk' = written(disk, path, text, now')
    /\ fsEvents' = fsEvents \cup {path}
    /\ UNCHANGED <<dirs, tracker, db, cache, calls, updates, cbq, watcherVars,
                   callbackVars, uuids, effects, reconcileVars>>

ExternalFrontmatter ==
    \/ \E extra \in SUBSET {"t", "j"} : UserEditFrontmatter(PA, extra)
    \/ UserEdit(PA, <<"y">>)

NextFrontmatter == ExternalFrontmatter \/ Server \/ OnNoteUpdated \/ WatcherEdit

SpecFrontmatter == Init /\ [][NextFrontmatter]_vars

(***************************************************************************)
(* The claims.                                                             *)
(***************************************************************************)
\* The callback at the head of cbq is for a note row.
NoteCallbackStarts ==
    /\ cpc = "idle" /\ cbq # <<>> /\ cbq' = Tail(cbq)
    /\ Head(cbq).table = "note"

\* C1: a Note-inserted or Note-updated callback for a note whose path is
\* unchanged and whose content hash the tracker already holds (the watcher
\* uploaded that body) returns at once: it writes nothing to disk, issues no
\* reducer call and leaves the tracker as it is.
C1_EchoSuppression ==
    [][(/\ NoteCallbackStarts
        /\ Head(cbq).op \in {"insert", "update"}
        /\ Head(cbq).op = "update" => Head(cbq).old.path = Head(cbq).new.path
        /\ holds(tracker, Head(cbq).new.id, Head(cbq).new.content))
       => (/\ cpc' = "idle"
           /\ disk' = disk /\ dirs' = dirs /\ fsEvents' = fsEvents
           /\ calls' = calls
           /\ tracker' = tracker)]_vars

\* The watcher has uploaded, and an insert callback and an update callback
\* have been dropped as echoes.
C1_Witness ==
    {"watcher_upsert", "insert_echo", "update_echo"} \subseteq effects

\* C2: once the external inputs stop the system becomes quiescent and stays
\* so; no chain of disk write, watcher event, upsert_note and callback goes
\* on forever.
C2_LoopTermination == <>[]Quiescent

\* The body of the file at path.
body_at(path) == parse_frontmatter(disk[path].text)[1]

\* C3: when nothing is in flight any more, the body of every file that
\* carries a note's id equals the content of the server's row for that id,
\* whatever the interleaving of the watcher and the subscription thread.
C3_Convergence ==
    Quiescent =>
        \A p \in Paths : \A r \in db.note :
            (disk[p].exists /\ extract_spacetime_id(disk[p].text) = r.id)
                => body_at(p) = r.content

\* The reducer call this step has sent, if it has sent one.
Sent == calls'[Len(calls')]

SendsUpsert == Len(calls') = Len(calls) + 1 /\ Sent.op = "upsert_note"

\* C4: whenever upsert_note is sent (watcher file event, folder-rename
\* recovery) and whenever a callback writes a note to disk, the tracker
\* already holds the hash of the payload.
C4_TrackerBeforeSideEffect ==
    [][/\ SendsUpsert => holds(tracker, Sent.arg.id, Sent.arg.content)
       /\ (cpc = "write" /\ cpc' = "idle")
              => holds(tracker, cChange.new.id, cChange.new.content)]_vars

\* C5: when the watcher's note has no id and the cache holds a note at its
\* path, the watcher stops: it writes nothing, draws no id, sends no reducer
\* call and leaves the tracker and the server's rows as they are.
C5_SplitBrainPrevention ==
    [][(/\ wpc = "path_check" /\ wpc' # wpc
        /\ wNote.id = ""
        /\ \E r \in cache.note : r.path = wNote.path)
       => (/\ wpc' = "idle"
           /\ disk' = disk /\ uuids' = uuids
           /\ calls' = calls
           /\ tracker' = tracker /\ db' = db)]_vars

\* The watcher has stopped at a file without id whose path the cache knows,
\* and that file is still as the user saved it.
C5_Witness ==
    /\ "safety_stop" \in effects
    /\ wpc = "idle"
    /\ disk[PA].exists /\ disk[PA].text = <<"y">>
    /\ \E r \in db.note : r.path = PA /\ r.id = "u1"

\* C6: the watcher writes a fresh id only into a file that carries no id and
\* whose text does not contain spacetime_id:, so no file that carries an id
\* is given another one.
C6_NoDoubleInjection ==
    [][(wpc = "inject" /\ wpc' = "is_modified")
       => (/\ extract_spacetime_id(disk[wPath].text) = ""
           /\ ~contains_spacetime_id(disk[wPath].text))]_vars

\* The ids the watcher has injected so far.
Injected == {FreshIds[i] : i \in 1..uuids}

\* C7: the watcher's upload after an injection carries the fresh id with
\* name, folder_path and depth derived from the sanitized path, and an event
\* on a file that is as an injection wrote it sends no second upload,
\* whatever the body.
C7_FirstSaveOnboarding ==
    /\ (wpc = "upsert" /\ extract_spacetime_id(wRaw) = "")
           => /\ wNote.id \in Injected
              /\ wNote.path = sanitize_path(wPath)
              /\ wNote.name = note_name(wNote.path)
              /\ wNote.folder_path = note_folder_path(wNote.path)
              /\ wNote.depth = path_depth(wNote.path)
    /\ ~(/\ wpc = "upsert"
         /\ wNote.id \in Injected
         /\ \E text \in UserTexts : wRaw = inject_spacetime_id(text, wNote.id))


OnDisk(id) ==
    \E p \in Paths : disk[p].exists /\ extract_spacetime_id(disk[p].text) = id

\* C9: after reconcile_on_startup and the delivery of its reducer calls,
\* every id that was on either side is in the vault, on the server and in
\* the tracker.
C9_OneSidedNotes ==
    (rpc = "done" /\ calls = <<>>)
        => \A id \in {n.id : n \in rServer \cup rLocal} :
               /\ OnDisk(id)
               /\ note_by_id(db, id) # {}
               /\ tracker[id] # NoHash

\* path with its leading from replaced by to.
rebased(path, from, to) == to \o SubSeq(path, Len(from) + 1, Len(path))

slashes(path) == Cardinality({i \in 1..Len(path) : path[i] = "/"})

\* C10: move_folder(old, new), with Folder old present and Folder new
\* absent, gives every note under old/ the path and folder_path under new/
\* and the depth of its new path and keeps its other fields, re-keys every
\* descendant folder with name and depth recomputed, and replaces the
\* Folder row old by a Folder row new.
C10_MoveFolderCascade ==
    [][\A old_path, new_path \in MoveArgs :
        LET old == normalize(old_path)
            new == normalize(new_path)
        IN  (/\ MoveFolder(old_path, new_path)
             /\ \E f \in db.folder : f.path = old
             /\ \A f \in db.folder : f.path # new)
            => /\ \A r \in db.note :
                      starts_with(r.folder_path, old \o <<"/">>)
                      => \E m \in db'.note :
                             /\ m.id = r.id
                             /\ m.path = rebased(r.path, old, new)
                             /\ m.folder_path = rebased(r.folder_path, old, new)
                             /\ m.depth = slashes(m.path)
                             /\ m.name = r.name /\ m.content = r.content
                             /\ m.frontmatter = r.frontmatter
                             /\ m.size = r.size
                             /\ m.created_time = r.created_time
                             /\ m.modified_time = r.modified_time
               /\ \A f \in db.folder :
                      starts_with(f.path, old \o <<"/">>)
                      => /\ \A g \in db'.folder : g.path # f.path
                         /\ \E g \in db'.folder :
                                /\ g.path = rebased(f.path, old, new)
                                /\ g.name = last_segment(g.path)
                                /\ g.depth = slashes(g.path)
               /\ \A g \in db'.folder : g.path # old
               /\ \E g \in db'.folder : g.path = new]_vars


\* path is old or lies under old/.
within(path, old) == path = old \/ starts_with(path, old \o <<"/">>)

\* move_folder(old_path, new_path) runs with Folder old present and Folder
\* new absent.
MovePasses(old_path, new_path) ==
    /\ MoveFolder(old_path, new_path)
    /\ \E f \in db.folder : f.path = normalize(old_path)
    /\ \A f \in db.folder : f.path # normalize(new_path)

\* C11: after a move_folder(old, new) that passes its precondition no Note
\* path and no Folder path is old or lies under old/, and the tables hold as
\* many Note rows and Folder rows as before.
C11_MoveFolderInvariant ==
    [][\A old_path, new_path \in MoveArgs :
        MovePasses(old_path, new_path)
        => /\ \A r \in db'.note : ~within(r.path, normalize(old_path))
           /\ \A f \in db'.folder : ~within(f.path, normalize(old_path))
           /\ Cardinality(db'.note) = Cardinality(db.note)
           /\ Cardinality(db'.folder) = Cardinality(db.folder)]_vars

\* C12: after delete_folder(f), with or without a Folder row f, no Note
\* whose folder_path begins with f/ is left and no Folder whose path is f or
\* begins with f is left.
C12_DeleteFolderCompleteness ==
    [][\A path \in MoveArgs :
        DeleteFolder(path)
        => /\ \A r \in db'.note :
                  ~starts_with(r.folder_path, normalize(path) \o <<"/">>)
           /\ \A f \in db'.folder : ~starts_with(f.path, normalize(path))]_vars

\* C13: delete_folder(f) leaves every Note whose folder_path does not begin
\* with f/ and every Folder that is neither f nor under f/ as it was; a
\* sibling whose name begins with f's name stays.
C13_DeleteFolderFrame ==
    [][\A path \in MoveArgs :
        DeleteFolder(path)
        => /\ \A r \in db.note :
                  ~starts_with(r.folder_path, normalize(path) \o <<"/">>)
                  => r \in db'.note
           /\ \A f \in db.folder :
                  ~within(f.path, normalize(path)) => f \in db'.folder]_vars

\* C14: move_folder(a, b) rewrites only rows of a's subtree: every Folder
\* that is neither a nor under a/ (a2, b2 and the like) and every Note whose
\* folder_path does not begin with a/ stays as it was.
C14_MoveFolderFrame ==
    [][\A old_path, new_path \in MoveArgs :
        MovePasses(old_path, new_path)
        => /\ \A f \in db.folder :
                  ~within(f.path, normalize(old_path)) => f \in db'.folder
           /\ \A r \in db.note :
                  ~starts_with(r.folder_path, normalize(old_path) \o <<"/">>)
                  => r \in db'.note]_vars

\* C15: in every state the reducer calls can reach, no two Note rows share a
\* path and no two share an id.
C15_UniquePathAndId ==
    \A r1, r2 \in db.note : (r1.path = r2.path \/ r1.id = r2.id) => r1 = r2

\* Two notes are stored after a call that ran into a constraint.
C15_Witness ==
    /\ "rolled_back" \in effects
    /\ Cardinality(db.note) >= 2

\* A step of one of the reducers that rewrite a note in place.
RewritesNote ==
    \/ \E id \in TableIds, path \in ArgNotePaths : RenameNote(id, path)
    \/ \E old_path, new_path \in ArgNotePaths : MoveNote(old_path, new_path)
    \/ \E id \in TableIds, path \in ArgNotePaths : UpdateNotePath(id, path)
    \/ \E old_path, new_path \in MoveArgs : MoveFolder(old_path, new_path)
    \/ \E path \in ArgNotePaths, content \in ArgTexts : AppendToNote(path, content)
    \/ \E path \in ArgNotePaths, content \in ArgTexts : PrependToNote(path, content)
    \/ \E path \in ArgNotePaths, old_text, new_text \in ArgTexts,
          replace_all \in BOOLEAN :
           FindReplaceInNote(path, old_text, new_text, replace_all)
    \/ \E id \in TableIds, content \in ArgTexts : UpdateNoteContent(id, content)

\* C16: rename_note, move_note, update_note_path, move_folder,
\* append_to_note, prepend_to_note, find_replace_in_note and
\* update_note_content leave the set of note ids as it was, store one row
\* per id, and keep each id's created_time.
C16_IdentityPreserved ==
    [][RewritesNote
       => /\ {r.id : r \in db'.note} = {r.id : r \in db.note}
          /\ Cardinality(db'.note) = Cardinality(db.note)
          /\ \A r \in db.note : \E q \in db'.note :
                 q.id = r.id /\ q.created_time = r.created_time]_vars

\* A note has been moved to another path and a note's content has been
\* rewritten, both since the tables were first seen.
C16_Witness ==
    /\ \E r \in db.note : /\ r.db_updated_at > 1
                          /\ r.modified_time = 1
                          /\ r.created_time = 1
    /\ \E r \in db.note : /\ r.modified_time > 1
                          /\ r.created_time = 1
                          /\ Len(r.content) > 1

\* C17: no Folder path ends with a slash, and every Note folder_path is
\* empty or ends with a slash.
C17_PathShapes ==
    /\ \A f \in db.folder : ~ends_with(f.path, <<"/">>)
    /\ \A r \in db.note : r.folder_path = <<>> \/ ends_with(r.folder_path, <<"/">>)

\* Folder a was stored by a call that spelled it a/, beside a note the
\* facade created.
C17_Witness ==
    /\ \E f \in db.folder : f.path = <<"a">> /\ f.depth = 1
    /\ \E r \in db.note : r.id = "u3"

\* Another note than the one at path own holds path.
held_by_other(path, own) == \E c \in db.note : c.path = path /\ c.path # own

\* C18: a reducer called with its precondition violated returns normally and
\* leaves the tables as they were: create_note with a stored id or path,
\* rename_note or move_note onto a path another note holds, a call on a note
\* that is not stored, move_folder with its source missing or its
\* destination stored, create_folder on a stored folder; and no call of any
\* reducer is aborted.
C18_GracefulRefusal ==
    [][/\ \A path \in ArgNotePaths, content \in ArgTexts :
              CreateNote(path, content) /\ note_by_path(db, path) # {}
              => create_note(db, FacadeNote("u3", path, content, now')).ok /\ db' = db
       /\ \A id \in TableIds, path \in ArgNotePaths :
              RenameNote(id, path)
              /\ (note_by_id(db, id) = {} \/ \E c \in db.note : c.path = path /\ c.id # id)
              => rename_note(db, id, path, now').ok /\ db' = db
       /\ \A old_path, new_path \in ArgNotePaths :
              MoveNote(old_path, new_path)
              /\ (note_by_path(db, old_path) = {} \/ held_by_other(new_path, old_path))
              => move_note(db, old_path, new_path, now').ok /\ db' = db
       /\ \A id \in TableIds, path \in ArgNotePaths :
              UpdateNotePath(id, path) /\ note_by_id(db, id) = {}
              => update_note_path(db, id, path, now').ok /\ db' = db
       /\ \A id \in TableIds, content \in ArgTexts :
              UpdateNoteContent(id, content) /\ note_by_id(db, id) = {}
              => db' = db
       /\ \A id \in TableIds : DeleteNote(id) /\ note_by_id(db, id) = {} => db' = db
       /\ \A path \in ArgNotePaths, content \in ArgTexts :
              (AppendToNote(path, content) \/ PrependToNote(path, content))
              /\ note_by_path(db, path) = {}
              => db' = db
       /\ \A path \in ArgNotePaths, old_text, new_text \in ArgTexts,
             replace_all \in BOOLEAN :
              FindReplaceInNote(path, old_text, new_text, replace_all)
              /\ note_by_path(db, path) = {}
              => db' = db
       /\ \A old_path, new_path \in MoveArgs :
              MoveFolder(old_path, new_path)
              /\ (folder_by_path(db, normalize(old_path)) = {}
                  \/ folder_by_path(db, normalize(new_path)) # {})
              => db' = db
       /\ \A path \in ArgFolderPaths :
              CreateFolder(path) /\ folder_by_path(db, normalize(path)) # {}
              => db' = db
       /\ "rolled_back" \notin effects']_vars

\* The places where p occurs in s from index i on, taken left to right
\* without overlap; the empty text occurs before every character and at
\* the end.
RECURSIVE occurrences_from(_, _, _)
occurrences_from(s, p, i) ==
    IF i > Len(s) - Len(p) + 1 THEN {}
    ELSE IF SubSeq(s, i, i + Len(p) - 1) = p
         THEN {i} \cup occurrences_from(s, p, i + (IF p = <<>> THEN 1 ELSE Len(p)))
    ELSE occurrences_from(s, p, i + 1)

\* The occurrences a call is to replace: all of them or the first.
to_replace(s, p, all) ==
    LET occ == occurrences_from(s, p, 1)
    IN  IF all \/ occ = {} THEN occ
        ELSE {CHOOSE i \in occ : \A k \in occ : i <= k}

\* s from index i on with to put in the place of p at each index of starts.
RECURSIVE spliced_from(_, _, _, _, _)
spliced_from(s, p, to, starts, i) ==
    IF i > Len(s) THEN (IF i \in starts THEN to ELSE <<>>)
    ELSE IF i \in starts /\ p # <<>> THEN to \o spliced_from(s, p, to, starts, i + Len(p))
    ELSE (IF i \in starts THEN to ELSE <<>>)
         \o <<s[i]>> \o spliced_from(s, p, to, starts, i + 1)

\* C19: find_replace_in_note puts new_text in the place of every occurrence
\* of old_text when replace_all is set and of the first occurrence
\* otherwise; when the result equals the stored content, or no note is at
\* path, the tables stay as they were, modified_time and db_updated_at
\* included.
C19_FindReplace ==
    [][\A path \in {<<"x", ".md">>, <<"a", "/", "x", ".md">>},
          old_text \in OldTexts, new_text \in NewTexts, replace_all \in BOOLEAN :
           FindReplaceInNote(path, old_text, new_text, replace_all)
           => IF note_by_path(db, path) = {} THEN db' = db
              ELSE LET e == CHOOSE r \in db.note : r.path = path
                       want == spliced_from(e.content, old_text, new_text,
                                   to_replace(e.content, old_text, replace_all), 1)
                   IN  IF want = e.content THEN db' = db
                       ELSE \E q \in db'.note :
                                /\ q.id = e.id /\ q.path = path
                                /\ q.content = want
                                /\ q.modified_time = now']_vars

\* One call has replaced both x of xyx, and a later call found nothing to
\* replace.
C19_Witness ==
    /\ \E r \in db.note : /\ r.content = <<"z", "y", "z">>
                          /\ r.modified_time = 2
    /\ now = 3

\* C20: from the call of write_note_to_disk on, whether it runs to its end
\* or the process crashes at any point, the target file is as it was when
\* the call began (absent if it was absent) or holds the whole new content,
\* and no file but the target and its sibling with extension tmp differs
\* from what it was.
C20_AtomicWrite ==
    cpc \in WriterStages \cup {"crashed"}
    => LET target == cChange.new.path
           tmp    == with_extension(target, ".tmp")
           before == cChange.old
       IN  /\ \/ disk[target] = before[target]
              \/ /\ disk[target].exists
                 /\ disk[target].text = writer_text(cChange.new)
           /\ \A p \in WriterPaths \ {target, tmp} : disk[p] = before[p]

\* The location a path names once the system has resolved its ".."
\* components, as the names from the root down.
RECURSIVE resolved(_, _)
resolved(names, stack) ==
    IF names = <<>> THEN stack
    ELSE IF Head(names) = <<"..">>
         THEN resolved(Tail(names),
                       IF stack = <<>> THEN stack
                       ELSE SubSeq(stack, 1, Len(stack) - 1))
    ELSE resolved(Tail(names), stack \o <<Head(names)>>)

location(path) == resolved(components(path_join(VaultRoot, path)), <<>>)

\* The path names a place that is not in the vault.
outside_vault(path) ==
    LET root == components(VaultRoot)
        at   == location(path)
    IN  ~(Len(root) <= Len(at) /\ SubSeq(at, 1, Len(root)) = root)

\* C21: for a note path that resolves outside the vault (absolute, or
\* relative with ".." components) write_note_to_disk returns its security
\* error and no step of it creates or changes the target, its .tmp sibling
\* or a directory outside the vault.
C21_TraversalGuard ==
    [][\A path \in GuardPaths :
        outside_vault(path)
        => /\ \A body \in {<<"x">>, <<"y">>} :
                  WriterGuard(path, body)
                  => cpc' = "idle" /\ "security_violation" \in effects'
           /\ disk'[path] = disk[path]
           /\ disk'[with_extension(path, ".tmp")] = disk[with_extension(path, ".tmp")]
           /\ (outside_vault(parent(path)) /\ parent(path) \in dirs')
              => parent(path) \in dirs]_vars

\* C22: when the disk write of the Note-inserted or Note-updated handler
\* fails, or the watcher's upload fails, the tracker is left without the
\* hash of the content that was not synced, so that the same content for
\* that id counts as changed the next time.
C22_NoTrackerPoisoning ==
    [][/\ OnNoteWriteFails
          => /\ ~holds(tracker', cChange.new.id, cChange.new.content)
             /\ has_changed(tracker', cChange.new.id, cChange.new.content)
       /\ WatcherUpsertFails
          => /\ ~holds(tracker', wNote.id, wNote.content)
             /\ has_changed(tracker', wNote.id, wNote.content)]_vars

\* C23: after update(id, c) has_changed(id, c) and is_modified(id, c) are
\* false; has_changed leaves the tracker as it was; is_modified(id, c) is
\* true exactly when id has no entry or its hash is not that of c, and then
\* it stores the hash of c, so that the same call again is false; after
\* remove(id) has_changed(id, c) is true for every c.
C23_TrackerOperations ==
    [][\A id \in TrackerIds, c \in TrackerTexts :
        /\ TrackerUpdate(id, c)
           => /\ ~has_changed(tracker', id, c)
              /\ ~is_modified(tracker', id, c).ret
        /\ TrackerHasChanged(id, c) => tracker' = tracker
        /\ TrackerIsModified(id, c)
           => LET differs == tracker[id] = NoHash \/ tracker[id] # hash(c)
              IN  /\ is_modified(tracker, id, c).ret <=> differs
                  /\ differs => /\ tracker' = [tracker EXCEPT ![id] = hash(c)]
                                /\ ~is_modified(tracker', id, c).ret
                  /\ ~differs => tracker' = tracker
        /\ TrackerRemove(id)
           => \A d \in TrackerTexts : has_changed(tracker', id, d)]_vars

\* is_modified has answered true and, asked again, false, and another
\* id's entry was removed.
C23_Witness ==
    /\ {"is_modified_true", "is_modified_false", "remove"} \subseteq effects
    /\ tracker["u1"] = NoHash
    /\ tracker["u2"] # NoHash

\* A tools/call that the facade cannot carry out: params that are not a
\* tool call, an unknown tool, an argument missing or of the wrong type, no
\* note at the path edit_note or regex_replace reads, text not found, a
\* pattern that does not compile.
fails_in_facade(request) ==
    LET p == request.params
        texts == {p.arguments[k] : k \in DOMAIN p.arguments \ {"paths"}}
        note == note_by_path(db, argument(p, "path"))
    IN  \/ p.kind # "object"
        \/ p.name = "no_such_tool"
        \/ JsonNumber \in texts
        \/ p.name = "move_note" /\ DOMAIN p.arguments # {"old_path", "new_path"}
        \/ p.name \in {"edit_note", "regex_replace"} /\ note = {}
        \/ p.name = "edit_note"
           /\ \E r \in note : ~contains(r.content, argument(p, "old_string"))
        \/ p.name = "regex_replace" /\ argument(p, "pattern") = <<"(">>

\* C24: every request gets a JSON-RPC response with the request's id; a
\* method other than initialize, tools/list and tools/call gets an error
\* with code -32601, and every failing tools/call gets an error with code
\* -32603.
C24_JsonRpcErrors ==
    [][\A request \in Requests :
        Handle(request)
        => /\ cChange'.new.kind \in {"result", "error"}
           /\ cChange'.new.id = request.id
           /\ request.method \notin {"initialize", "tools/list", "tools/call"}
              => cChange'.new = Response(request.id, "error", -32601)
           /\ request.method = "tools/call" /\ fails_in_facade(request)
              => cChange'.new = Response(request.id, "error", -32603)]_vars

\* The reducer the tool calls finds its precondition violated and changes
\* nothing: no note at the path move_note or append_to_note names, a note
\* already at the path create_note names, a Folder already at move_folder's
\* destination, a note already at a path the bulk move targets.
refused_on_server(request) ==
    LET p == request.params
    IN  /\ request.method = "tools/call"
        /\ p.kind = "object"
        /\ \/ /\ p.name = "move_note"
              /\ DOMAIN p.arguments = {"old_path", "new_path"}
              /\ note_by_path(db, p.arguments["old_path"]) = {}
           \/ /\ p.name = "append_to_note"
              /\ is_string(argument(p, "content"))
              /\ note_by_path(db, argument(p, "path")) = {}
           \/ /\ p.name = "create_note"
              /\ note_by_path(db, argument(p, "path")) # {}
           \/ /\ p.name = "move_folder"
              /\ folder_by_path(db, normalize(argument(p, "new_path"))) # {}
           \/ /\ p.name = "move_notes_to_folder"
              /\ \E i \in DOMAIN p.arguments["paths"] :
                     note_by_path(db, destination(argument(p, "destination_folder"))
                                      \o last_segment(p.arguments["paths"][i])) # {}

\* C25: a tool call whose reducer changes nothing because its precondition
\* fails on the server is answered with an error, not with a result.
C25_RefusalReported ==
    [][\A request \in Requests :
        Handle(request) /\ refused_on_server(request)
        => cChange'.new.kind = "error"]_vars

front_block(content) ==
    IF starts_with(content, <<"F">>) /\ find_closing(Tail(content)) # 0
    THEN SubSeq(Tail(content), 1, find_closing(Tail(content)) - 1)
    ELSE <<>>

\* C27: whatever the content (no front-matter, a well-formed block, a block
\* of malformed YAML, an opening delimiter without a closing one) and the
\* id, extracting from the injected content gives the injected id, and after
\* a second injection the front-matter holds exactly one spacetime_id key,
\* that of the second id.
C27_IdentityRoundTrip ==
    /\ \A i \in DOMAIN wList : wList[i][2] = wList[i][1]
    /\ Len(wList) >= 2
       => LET block == front_block(wRaw)
              at    == {i \in DOMAIN block : block[i] \in IdKeyToks}
          IN  /\ Cardinality(at) = 1
              /\ \A i \in at : block[i] = KeyOf(wList[Len(wList)][1])
              /\ get_spacetime_id(yaml_from_str(block)) = wList[Len(wList)][1]

\* u2 was injected after u1 into a text that opened a block of malformed
\* YAML and never closed it.
C27_Witness ==
    /\ Len(wList) = 2
    /\ wList[1][1] = "u1" /\ wList[2][1] = "u2"
    /\ \E i \in DOMAIN wRaw : /\ i > 1 /\ wRaw[i] = "F"
                              /\ i < Len(wRaw) /\ wRaw[i + 1] = "q"
                              /\ find_closing(SubSeq(wRaw, i + 1, Len(wRaw))) = 0

\* The ASCII characters sanitize_path may leave in a path: alphanumerics and
\* / . space - _ , ( ) [ ] " '
AsciiAllowed ==
    {"a", "b", "c", "x", "F", "G", "2", "/", ".", " ", "-", "_", ",",
     "(", ")", "[", "]", "DQUOTE", "QUOTE"}

\* Where the character at i of path stands in the sanitized path: every
\* ellipsis before it has become three characters.
place(path, i) ==
    i + 2 * Cardinality({k \in 1..(i - 1) : path[k] = "ELLIPSIS"})

upserted(id, path, content) ==
    FromLocal(NewNote(id, path, content, EmptyObject, Len(content), now', now'),
              now')

\* C29: whatever the arguments and the table, after upsert_note(id, path, ..)
\* the table holds exactly one row with that id, its fields are the
\* arguments, and every row with another id is as it was (so that the same
\* call made again changes nothing but db_updated_at).
C29_UpsertNote ==
    [][\A id \in TableIds, path \in ArgNotePaths, content \in ArgTexts :
           UpsertNote(id, path, content)
           => /\ {r \in db'.note : r.id = id} = {upserted(id, path, content)}
              /\ {r \in db'.note : r.id # id} = {r \in db.note : r.id # id}]_vars

\* name is the last segment of the stored path and depth the number of its
\* slashes.
derived_fields(f) ==
    /\ f.name = last_segment(f.path)
    /\ f.depth = Cardinality({i \in DOMAIN f.path : f.path[i] = "/"})

\* C30: every Folder row the system writes has name equal to the last
\* segment of its stored path and depth equal to the number of slashes in
\* it: a row upserted for a directory (watcher event, startup folder sync),
\* a row the facade's create_folder stores, with or without a trailing slash
\* in its argument, and the rows move_folder stores for the moved folder and
\* its descendants.
C30_FolderDerivedFields ==
    [][/\ \A path \in ArgFolderPaths :
              CreateFolder(path) => \A f \in db'.folder \ db.folder : derived_fields(f)
       /\ \A path \in ArgFolderPaths :
              UpsertFolder(path) /\ ~ends_with(path, <<"/">>)
              => \A f \in db'.folder \ db.folder : derived_fields(f)
       /\ \A old_path, new_path \in MoveArgs :
              MoveFolder(old_path, new_path)
              => \A f \in db'.folder \ db.folder : derived_fields(f)]_vars

\* C31: when the Note-deleted handler has run for a note, no file is at the
\* note's old path and the tracker has no entry for its id, whether or not
\* the file was there when the handler ran; so the Note-inserted callback
\* for the same id and content that follows is not dropped as an echo but
\* goes on to write the file.
C31_RemoteDeletion ==
    [][/\ (/\ cpc = "idle" /\ cbq # <<>>
           /\ Head(cbq).table = "note" /\ Head(cbq).op = "delete"
           /\ cbq' = Tail(cbq) /\ cpc' = "idle")
          => /\ ~disk'[Head(cbq).old.path].exists
             /\ tracker'[Head(cbq).old.id] = NoHash
       /\ (cpc = "remove" /\ cpc' = "idle")
          => /\ ~disk'[cChange.old.path].exists
             /\ tracker'[cChange.old.id] = NoHash
       /\ (/\ cpc = "idle" /\ cbq # <<>>
           /\ Head(cbq).table = "note" /\ Head(cbq).op = "insert"
           /\ Head(cbq).new.id = "u1"
           /\ cbq' = Tail(cbq))
          => cpc' = "update"]_vars

\* C32: a Note-updated callback whose path changed removes the file at the
\* old path and writes the note at the new path, whatever the tracker
\* holds; one whose path is unchanged and whose content hash the tracker
\* holds writes nothing; and the watcher, which here sees only the events
\* of those removals and writes, sends no delete_note and no upsert_note.
C32_RemoteRename ==
    [][/\ (/\ cpc = "idle" /\ cbq # <<>> /\ cbq' = Tail(cbq)
           /\ Head(cbq).table = "note" /\ Head(cbq).op = "update")
          => IF Head(cbq).old.path # Head(cbq).new.path
             THEN cpc' = "remove_old"
             ELSE holds(tracker, Head(cbq).new.id, Head(cbq).new.content)
                  => cpc' = "idle" /\ disk' = disk
       /\ (cpc = "remove_old" /\ cpc' # cpc)
          => ~disk'[cChange.old.path].exists /\ cpc' = "update"
       /\ (cpc = "write" /\ cpc' # cpc)
          => /\ disk'[cChange.new.path].exists
             /\ parse_frontmatter(disk'[cChange.new.path].text)[1]
                   = cChange.new.content
             /\ extract_spacetime_id(disk'[cChange.new.path].text)
                   = cChange.new.id
       /\ Len(calls') <= Len(calls)]_vars

\* C33: the watcher, at a markdown path whose file is gone, sends
\* delete_note for the cached note whose path is the sanitized path and
\* then removes that id from the tracker, and sends nothing when the cache
\* has no note at the path; the Note-deleted callback that results sends no
\* call and deletes no file.
C33_LocalDeletion ==
    [][/\ \A p \in Paths :
              WatcherFileGone(p)
              => LET hit == {n \in get_all_notes(cache) : n.path = sanitize_path(p)}
                 IN  IF hit = {} THEN calls' = calls /\ wpc' = "idle"
                     ELSE /\ \E n \in hit :
                                 /\ calls' = Append(calls, Call("delete_note", n.id))
                                 /\ wNote' = n
                          /\ wpc' = "remove"
       /\ (wpc = "remove" /\ wpc' # wpc) => tracker'[wNote.id] = NoHash
       /\ (/\ cpc = "idle" /\ cbq # <<>> /\ cbq' = Tail(cbq)
           /\ Head(cbq).table = "note" /\ Head(cbq).op = "delete")
          => disk' = disk /\ calls' = calls]_vars

\* C34: in the watcher's handling of a missing folder, a cached note under
\* the folder whose id is found in a file elsewhere in the vault is upserted
\* with the path of that file, and only a note whose id is in no file is
\* deleted (delete_note, then tracker.remove); delete_folder is sent after
\* the last of them, and the server running it deletes no note that was
\* upserted so.
C34_FolderRenameRecovery ==
    [][/\ (wpc = "recover" /\ wpc' # wpc /\ wList # <<>>)
          => LET note  == Head(wList)
                 found == scan_for_note_by_id(disk, note.id)
             IN  /\ ~disk[note.path].exists
                 /\ IF found = {}
                    THEN /\ calls' = Append(calls, Call("delete_note", note.id))
                         /\ wpc' = "recover_remove"
                    ELSE /\ Len(calls') = Len(calls) + 1
                         /\ calls'[Len(calls')].op = "upsert_note"
                         /\ calls'[Len(calls')].arg.id = note.id
                         /\ calls'[Len(calls')].arg.path \in found
                         /\ wpc' = "recover_update"
       /\ (wpc = "recover_remove" /\ wpc' # wpc) => tracker'[wNote.id] = NoHash
       /\ (Len(calls') > Len(calls) /\ calls'[Len(calls')].op = "delete_folder")
          => /\ wpc = "recover" /\ wList = <<>>
             /\ calls'[Len(calls')].arg = sanitize_path(wPath)
       /\ (/\ calls # <<>> /\ calls' = Tail(calls)
           /\ Head(calls).op = "delete_folder"
           /\ "recovery_upsert" \in effects)
          => \A r \in db.note :
                 scan_for_note_by_id(disk, r.id) # {}
                 => \E q \in db'.note : q.id = r.id]_vars

\* The millisecond counts of the instants the clock passes.
ClockMillis == {t * 1000 : t \in Epoch..(Epoch + MaxInputs + 1)}

\* C35: every created_time and modified_time written into a Note row is a
\* count of milliseconds since the epoch, whichever component wrote it, and
\* a row edited on the server later than the local file was saved is newer
\* than the file in the reconciler's comparison.
C35_TimestampUnit ==
    [][\A r \in db'.note \ db.note :
           /\ r.created_time \in ClockMillis
           /\ r.modified_time \in ClockMillis
           /\ (/\ r.id = "u1" /\ disk'[PA].exists
               /\ cpc' \in {"facade_edit", "append"}
               /\ disk'[PA].mtime < now' * 1000)
              => server_is_newer(read_note_at(disk'[PA], PA), r)]_vars

\* C36: the tracker hashes the body only.  When the watcher reads a file
\* whose id it can extract and whose body has the hash the tracker holds,
\* it drops the event as an echo whatever the front-matter says, and sends
\* no call; so while the user has changed nothing but the front-matter, no
\* call leaves and the remote row keeps the front-matter it had.
C36_FrontmatterOnlyEdit ==
    [][/\ (/\ wpc = "echo_check" /\ wpc' # wpc
           /\ wNote.id # ""
           /\ holds(tracker, wNote.id, wNote.content))
          => wpc' = "idle" /\ calls' = calls /\ db' = db
       /\ (/\ disk'[PA].exists
           /\ parse_frontmatter(disk'[PA].text)[1] = InitRow.content)
          => /\ calls' = <<>>
             /\ db' = InitDb]_vars

\* The file carries a title beside its id and the body it had, the watcher
\* has dropped its event, and the remote row is as it was.
C36_Witness ==
    /\ disk[PA].exists
    /\ parse_frontmatter(disk[PA].text)[2].keys = {"k1", "t"}
    /\ parse_frontmatter(disk[PA].text)[1] = InitRow.content
    /\ "watcher_echo" \in effects
    /\ fsEvents = {} /\ wpc = "idle"
    /\ InitRow \in db.note /\ InitRow.frontmatter.keys = {"k1"}

(***************************************************************************)
(* The folder and note handlers on a filesystem of resolved locations.     *)
(* Here dirs holds every directory and file that exists, inside and        *)
(* outside the vault, as the list of names from the filesystem root that   *)
(* the operating system resolves a path to.                                *)
(***************************************************************************)

Entry(at, is_dir) == [at |-> at, dir |-> is_dir]

is_under(at, base) ==
    Len(at) >= Len(base) /\ SubSeq(at, 1, Len(base)) = base

\* Paths of the Folder rows the clients of the server ask for.
ProjectFolders == {<<"/">>, <<"F", "/">>, <<"..", "/", "x">>}

ProjectNotes ==
    {FromLocal(NewNote("u1", PA, <<"x">>, EmptyObject, 1, 0, 0), 0),
     FromLocal(NewNote("u2", <<"..", "/", "x", "/", "a", ".md">>, <<"y">>,
                       EmptyObject, 1, 0, 0), 0)}

InitProject ==
    /\ disk = [p \in Paths |-> NoFile]
    /\ dirs = {Entry(location(<<>>), TRUE),
               Entry(location(DirF), TRUE),
               Entry(location(PA), FALSE),
               Entry(location(<<"..", "/", "x">>), TRUE),
               Entry(location(<<"..", "/", "x", "/", "a", ".md">>), FALSE)}
    /\ tracker = tracker_update(EmptyTracker, "u1", <<"x">>)
    /\ db = [note |-> ProjectNotes, folder |-> {}]
    /\ cache = db
    /\ calls = <<>> /\ updates = <<>> /\ cbq = <<>> /\ fsEvents = {}
    /\ wpc = "idle" /\ wPath = <<>> /\ wNote = NoNote /\ wRaw = <<>>
    /\ wList = <<>>
    /\ cpc = "idle" /\ cChange = NoChange
    /\ now = 1 /\ inputs = 0 /\ uuids = 0 /\ effects = {}
    /\ rpc = "off" /\ rServer = {} /\ rLocal = {} /\ rTodo = {}

\* Another client's requests, as the server commits and broadcasts them.
ProjectRequest(tx) ==
    /\ Tick
    /\ Changes(db, tx) # {}
    /\ Broadcast(tx)
    /\ UNCHANGED <<disk, dirs, tracker, cache, calls, cbq, fsEvents,
                   watcherVars, callbackVars, uuids, effects, reconcileVars>>

ProjectCreateFolder(path) ==
    ProjectRequest(create_folder(db, path, last_segment(normalize(path)),
                                 count(path, "/")))

ProjectUpsertFolder(path) ==
    ProjectRequest(upsert_folder(db, path, NewFolder(normalize(path)).name,
                                 NewFolder(normalize(path)).depth))

ProjectDeleteFolder(path) == ProjectRequest(delete_folder(db, path))

ProjectDeleteNote(id) == ProjectRequest(delete_note(db, id))

create_dir_all(fs, at) ==
    IF \E k \in 1..Len(at) : Entry(SubSeq(at, 1, k), FALSE) \in fs THEN fs
    ELSE fs \cup {Entry(SubSeq(at, 1, k), TRUE) : k \in 1..Len(at)}

remove_dir_all(fs, at) == {e \in fs : ~is_under(e.at, at)}

rename(fs, from, to) ==
    {e \in fs : ~is_under(e.at, from)}
        \cup {Entry(to \o SubSeq(e.at, Len(from) + 1, Len(e.at)), e.dir) :
                 e \in {d \in fs : is_under(d.at, from)}}

ProjectOnNoteDeleted ==
    /\ cpc = "idle" /\ cbq # <<>>
    /\ Head(cbq).table = "note" /\ Head(cbq).op = "delete"
    /\ LET old  == Head(cbq).old
           path == location(old.path)
       IN  IF Entry(path, FALSE) \in dirs
           THEN /\ dirs' = dirs \ {Entry(path, FALSE)}
                /\ tracker' = tracker_remove(tracker, old.id)
           ELSE UNCHANGED <<dirs, tracker>>
    /\ cbq' = Tail(cbq)
    /\ UNCHANGED <<disk, db, cache, calls, updates, fsEvents, watcherVars,
                   callbackVars, now, inputs, uuids, effects, reconcileVars>>

ProjectOnFolderInserted ==
    /\ cpc = "idle" /\ cbq # <<>>
    /\ Head(cbq).table = "folder" /\ Head(cbq).op = "insert"
    /\ LET path == location(Head(cbq).new.path)
       IN  IF \E e \in dirs : e.at = path
           THEN UNCHANGED dirs
           ELSE dirs' = create_dir_all(dirs, path)
    /\ cbq' = Tail(cbq)
    /\ UNCHANGED <<disk, tracker, db, cache, calls, updates, fsEvents,
                   watcherVars, callbackVars, now, inputs, uuids, effects,
                   reconcileVars>>

ProjectOnFolderDeleted ==
    /\ cpc = "idle" /\ cbq # <<>>
    /\ Head(cbq).table = "folder" /\ Head(cbq).op = "delete"
    /\ LET path == location(Head(cbq).old.path)
       IN  IF Entry(path, TRUE) \in dirs
           THEN dirs' = remove_dir_all(dirs, path)
           ELSE UNCHANGED dirs
    /\ cbq' = Tail(cbq)
    /\ UNCHANGED <<disk, tracker, db, cache, calls, updates, fsEvents,
                   watcherVars, callbackVars, now, inputs, uuids, effects,
                   reconcileVars>>

ProjectOnFolderUpdated ==
    /\ cpc = "idle" /\ cbq # <<>>
    /\ Head(cbq).table = "folder" /\ Head(cbq).op = "update"
    /\ LET old_path == location(Head(cbq).old.path)
           new_path == location(Head(cbq).new.path)
       IN  IF /\ \E e \in dirs : e.at = old_path
              /\ components(path_join(VaultRoot, Head(cbq).old.path))
                     # components(path_join(VaultRoot, Head(cbq).new.path))
           THEN dirs' = rename(create_dir_all(dirs,
                                   SubSeq(new_path, 1, Len(new_path) - 1)),
                               old_path, new_path)
           ELSE UNCHANGED dirs
    /\ cbq' = Tail(cbq)
    /\ UNCHANGED <<disk, tracker, db, cache, calls, updates, fsEvents,
                   watcherVars, callbackVars, now, inputs, uuids, effects,
                   reconcileVars>>

NextProject ==
    \/ \E path \in ProjectFolders : ProjectCreateFolder(path)
    \/ \E path \in ProjectFolders : ProjectUpsertFolder(path)
    \/ \E path \in ProjectFolders : ProjectDeleteFolder(path)
    \/ \E id \in {"u1", "u2"} : ProjectDeleteNote(id)
    \/ Deliver
    \/ ProjectOnNoteDeleted
    \/ ProjectOnFolderInserted
    \/ ProjectOnFolderDeleted
    \/ ProjectOnFolderUpdated

SpecProject == InitProject /\ [][NextProject]_vars

strictly_inside_vault(at) ==
    is_under(at, location(<<>>)) /\ at # location(<<>>)

\* C37: no subscription handler removes or renames the vault root or
\* anything outside the vault: whatever Note or Folder row is delivered to
\* the Note-deleted, Folder-deleted and Folder-updated handlers, the row
\* with the empty path that create_folder("/") stores and rows whose path
\* has .. components included, every filesystem location a handler removes
\* or renames lies strictly inside the vault.
C37_HandlersStayInVault ==
    [][\A e \in dirs \ dirs' : strictly_inside_vault(e.at)]_vars

\* C38: after reconcile_on_startup, for every note id that was present on
\* both sides exactly one file on disk carries that id, and it is at the
\* path of the winning side (the server's when the server row is newer,
\* else the local file's), also when the server row and the local file had
\* different paths before the reconciliation.
C38_OneFilePerReconciledId ==
    rpc = "done" =>
        \A id \in StartIds :
            \A local \in local_get(id), server \in server_get(id) :
                scan_for_note_by_id(disk, id)
                    = {IF server_is_newer(local, server) THEN server.path
                       ELSE local.path}

(***************************************************************************)
(* Startup from wait_for_sync's return to the registered callbacks, while  *)
(* another client changes the remote tables.  Until the callbacks are      *)
(* registered the connection's thread applies each transaction update to   *)
(* the cache and has no callback to run.                                   *)
(***************************************************************************)
InitLate ==
    /\ disk = [p \in Paths |-> IF p = PA THEN InitFile ELSE NoFile]
    /\ dirs = {DirF}
    /\ tracker = EmptyTracker
    /\ db = InitDb
    /\ cache = InitDb
    /\ calls = <<>> /\ updates = <<>> /\ cbq = <<>> /\ fsEvents = {}
    /\ wpc = "idle" /\ wPath = <<>> /\ wNote = NoNote /\ wRaw = <<>>
    /\ wList = <<>>
    /\ cpc = "idle" /\ cChange = NoChange
    /\ now = 0 /\ inputs = 0 /\ uuids = 0 /\ effects = {}
    /\ rpc = "start" /\ rServer = {} /\ rLocal = {} /\ rTodo = {}

ExternalLate ==
    \/ RemoteEdit("u1", <<"y">>)
    \/ RemoteDelete("u1")
    \/ RemoteCreate("u3", <<"G", "/", "a", ".md">>, <<"z">>)

\* main.rs registers the callbacks once reconcile_on_startup has returned.
LateRegister == MainStep("done", "running", {"callbacks_registered"})

NextLate ==
    \/ inputs < MenuInputs /\ ExternalLate
    \/ ReconcileStart
    \/ \E id \in StartIds : ReconcileBoth(id)
    \/ \E id \in StartIds : ReconcileServerOnly(id)
    \/ \E id \in StartIds : ReconcileLocalOnly(id)
    \/ ReconcileDone
    \/ LateRegister
    \/ ServerApply
    \/ rpc # "running" /\ DeliverAtStartup
    \/ rpc = "running" /\ Deliver
    \/ NoteCallbacks
    \/ OnNoteDeleted
    \/ OnNoteDeletedRemove

SpecLate == InitLate /\ [][NextLate]_vars

\* Nothing is in flight and no thread is in the middle of a step.
settled ==
    /\ rpc = "running" /\ cpc = "idle"
    /\ calls = <<>> /\ updates = <<>> /\ cbq = <<>>

reflected_on_disk ==
    /\ \A r \in db.note :
           /\ disk[r.path].exists
           /\ extract_spacetime_id(disk[r.path].text) = r.id
           /\ parse_frontmatter(disk[r.path].text)[1] = r.content
    /\ \A p \in Paths :
           disk[p].exists => \E r \in db.note : r.path = p

\* C39: no remote change is lost during startup: once the callbacks are
\* registered and nothing is in flight any more, every note insert, update
\* and delete applied to the remote tables after the initial subscription
\* is reflected on disk, a change applied between the reconciler's snapshot
\* of the server notes and the registration of the callbacks included.
C39_NoChangeLostAtStartup == settled => reflected_on_disk

(***************************************************************************)
(* The callbacks of the daemon while another client moves the folder F,    *)
(* in which the vault holds the synced note and a file the user has just   *)
(* saved, for which the watcher has not run yet.                           *)
(***************************************************************************)
RemoteMoveFolder(old_path, new_path) ==
    /\ Tick
    /\ \E notes \in Orders(notes_to_update(db, normalize(old_path))),
          subs \in Orders(subfolders_to_update(db, normalize(old_path))) :
           Broadcast(move_folder(db, old_path, new_path, now', notes, subs))
    /\ UNCHANGED <<disk, dirs, tracker, cache, calls, cbq, fsEvents,
                   watcherVars, callbackVars, uuids, effects, reconcileVars>>

ExternalRemoteFolder ==
    \/ /\ folder_by_path(db, DirF) # {} /\ ~disk[PB].exists
       /\ \E body \in {<<"y">>, <<"z">>} : UserWrite(PB, body)
    \/ RemoteEdit("u1", <<"w">>)
    \/ /\ folder_by_path(db, DirF) # {} /\ disk[PB].exists
       /\ RemoteMoveFolder(DirF, DirG)

NextRemoteFolder ==
    \/ ExternalRemoteFolder
    \/ Deliver
    \/ OnNoteUpdated
    \/ OnNoteUpdatedRemoveOld
    \/ OnNoteTrackerUpdate
    \/ OnNoteWrite
    \/ OnFolderInserted
    \/ OnFolderDeleted

SpecRemoteFolder == Init /\ [][NextRemoteFolder]_vars

\* Every callback of the move_folder(F, G) transaction has run.
folder_moved ==
    /\ folder_by_path(cache, DirG) # {}
    /\ cpc = "idle" /\ cbq = <<>>

\* C40: when the transaction of a remote move_folder(old, new) is delivered,
\* then in every order of its Folder-deleted, Folder-inserted and
\* Note-updated callbacks the Folder-deleted handler deletes no file of the
\* old directory, and once the callbacks have run every file that was under
\* the local directory old, the tracked note and the note without an id,
\* exists under the directory new.
C40_RemoteFolderMove ==
    [][/\ (/\ cpc = "idle" /\ cbq # <<>> /\ cbq' = Tail(cbq)
           /\ Head(cbq).table = "folder" /\ Head(cbq).op = "delete")
          => \A p \in Paths : disk[p].exists => disk'[p].exists
       /\ folder_moved'
          => /\ disk'[<<"G", "/", "a", ".md">>].exists
             /\ disk'[<<"G", "/", "b", ".md">>].exists]_vars

====
